---- MODULE Spec2Model ----
(***************************************************************************)
(* The partitioned Parquet store of project_yield: ParquetWriter           *)
(* (data/writer.py) and DataReader (data/reader.py).                       *)
(*                                                                         *)
(* A date is the integer 100 * year + day, so that dt.year() is the        *)
(* integer division by 100.  A price frame is a sequence of rows; one      *)
(* payload column (close) stands for the value columns of a row.  A file   *)
(* is a record [exists, rows]; rows is the stored frame in file order.     *)
(***************************************************************************)
EXTENDS Integers, Sequences, FiniteSets, TLC

\* ---------------------------------------------------------------- bounds
\* rows handed to the writer in one run, over all of its calls (a call with an
\* empty frame and a delete count as one)
MaxRows == 4
\* calls of reader and ratio methods in one run over a populated store
MaxCalls == 1

\* ---------------------------------------------------------------- domains
Tickers == {1, 2}
Dates == {101, 102, 201}
Kinds == {"prices", "quarterly", "annual"}

\* datetime.date(...).year, as pl.col("date").dt.year() computes it
YearOf(d) == d \div 100

Years == {YearOf(d) : d \in Dates}

\* input rows as the callers hand them over (writer.py:58: no ticker, no year)
PriceRows ==
    {[date |-> 101, close |-> 1], [date |-> 101, close |-> 2],
     [date |-> 102, close |-> 1], [date |-> 201, close |-> 1]}
\* a statement row: a value column holds {} for null and {v} for the value v
Statement(fiscal_period, revenue, gross_profit, operating_income, net_income, eps, shares_outstanding, rd_expense, capex) ==
    [fiscal_period |-> fiscal_period, revenue |-> revenue,
     gross_profit |-> gross_profit, operating_income |-> operating_income,
     net_income |-> net_income, eps |-> eps,
     shares_outstanding |-> shares_outstanding, rd_expense |-> rd_expense,
     capex |-> capex]
StatementRows == {Statement(103, {1}, {1}, {1}, {1}, {1}, {1}, {}, {})}

SeqsUpTo(S, n) == UNION {[1..k -> S] : k \in 0..n}
\* the frames of at most n rows, for every n a run can still afford
PriceFrames == [n \in 0..MaxRows |-> SeqsUpTo(PriceRows, n)]
StatementFrames == {<<>>} \cup {<<r>> : r \in StatementRows}

\* what a call costs of the run's MaxRows
Cost(df) == IF df = <<>> THEN 1 ELSE Len(df)

NoFile == [exists |-> FALSE, rows |-> <<>>]
File(rows) == [exists |-> TRUE, rows |-> rows]

\* df.is_empty()
is_empty_never(df) == FALSE
is_empty(df) == df = <<>>

\* frame.write_parquet(file_path): the file at file_path, whatever it held, now
\* holds frame
write_parquet_appends(existing, frame) == File(existing.rows \o frame)
write_parquet(existing, frame) == File(frame)

VARIABLES
    prices,     \* prices/ticker=T/year=Y/data.parquet, by <<T, Y>>
    quarterly,  \* fundamentals_quarterly/ticker=T/data.parquet, by T
    annual,     \* fundamentals_annual/ticker=T/data.parquet, by T
    tdirs,      \* the existing directories <kind>/ticker=T, as <<kind, T>>
    last,       \* the last writer call: its arguments, its result, what it found
    used        \* rows handed to the writer so far (see MaxRows)

vars == <<prices, quarterly, annual, tdirs, last, used>>

\* ---------------------------------------------------------------- frames
\* df.with_columns(pl.lit(ticker).alias("ticker")) and
\* df.with_columns(pl.col("date").dt.year().alias("year"))
with_columns(df, ticker) ==
    [i \in DOMAIN df |->
        [ticker |-> ticker, date |-> df[i].date, close |-> df[i].close,
         year |-> YearOf(df[i].date)]]

\* df["year"].unique(), as a set
years_of(df) == {df[i].year : i \in DOMAIN df}

\* df.filter(pl.col("year") == year)
filter_year_no_filter(df, year) == df
filter_year(df, year) == SelectSeq(df, LAMBDA r : r.year = year)

RowSet(rows) == {rows[i] : i \in DOMAIN rows}
DateSet(rows) == {rows[i].date : i \in DOMAIN rows}

\* df without its i-th row
Without(df, i) == SubSeq(df, 1, i - 1) \o SubSeq(df, i + 1, Len(df))

\* df.sort("date"): ascending by date; maintain_order is False, so rows of equal
\* dates come out in any order: the set of the frames sort can return
sort_keeps_order(df) == {df}
RECURSIVE sort(_)
sort(df) ==
    IF df = <<>> THEN {<<>>}
    ELSE UNION {{<<df[i]>> \o rest : rest \in sort(Without(df, i))} :
                  i \in {k \in DOMAIN df : \A j \in DOMAIN df : df[k].date <= df[j].date}}

\* the rows of df whose index is in I, in df's order
RECURSIVE Pick(_, _, _)
Pick(df, I, i) ==
    IF i > Len(df) THEN <<>>
    ELSE IF i \in I THEN <<df[i]>> \o Pick(df, I, i + 1)
    ELSE Pick(df, I, i + 1)

\* df.unique(subset=["date"], keep="last")
unique_keeps_first(df) ==
    Pick(df, {i \in DOMAIN df : \A j \in DOMAIN df : j < i => df[j].date # df[i].date}, 1)
unique_last(df) ==
    Pick(df, {i \in DOMAIN df : \A j \in DOMAIN df : j > i => df[j].date # df[i].date}, 1)

\* ---------------------------------------------------------------- Init
\* The state after ParquetWriter.__init__ on a fresh data_path: the four base
\* directories exist and hold nothing.
\* last: op, ticker, df are the call; ret the years of the paths a price write
\* returns (one path per year, so the list is as long as the set is large); path
\* whether a fundamentals write returns a path; deleted what delete_ticker
\* returns; raised whether the call raised; before the ticker's price
\* partitions as the call found them
NoCall == [op |-> "init", ticker |-> 0, df |-> <<>>, ret |-> {}, deleted |-> 0,
           before |-> [y \in Years |-> NoFile], path |-> FALSE, raised |-> FALSE]

Init ==
    /\ prices = [p \in Tickers \X Years |-> NoFile]
    /\ quarterly = [t \in Tickers |-> NoFile]
    /\ annual = [t \in Tickers |-> NoFile]
    /\ tdirs = {}
    /\ last = NoCall
    /\ used = 0

\* the (ticker, year) price partitions of one ticker
PartitionsOf(ticker) == [y \in Years |-> prices[<<ticker, y>>]]

\* ---------------------------------------------------------------- writer
\* ParquetWriter.write_prices(df, ticker)
write_prices(df, ticker) ==
    /\ used + Cost(df) <= MaxRows
    /\ used' = used + Cost(df)
    /\ IF is_empty(df)
       THEN /\ last' = [NoCall EXCEPT !.op = "write_prices", !.ticker = ticker,
                           !.df = df, !.before = PartitionsOf(ticker)]
            /\ UNCHANGED <<prices, quarterly, annual, tdirs>>
       ELSE LET full == with_columns(df, ticker)
                years == years_of(full)
            IN  /\ prices' = [p \in Tickers \X Years |->
                                IF p[1] = ticker /\ p[2] \in years
                                THEN write_parquet(prices[p], filter_year(full, p[2]))
                                ELSE prices[p]]
                /\ tdirs' = tdirs \cup {<<"prices", ticker>>}
                /\ last' = [NoCall EXCEPT !.op = "write_prices", !.ticker = ticker,
                               !.df = df, !.ret = years,
                               !.before = PartitionsOf(ticker)]
                /\ UNCHANGED <<quarterly, annual>>

\* the merged frames one year's partition can end up holding (writer.py:216-223)
merge(existing, new_data) ==
    IF existing.exists
    THEN sort(unique_last(existing.rows \o new_data))
    ELSE sort(new_data)

\* ParquetWriter.append_prices(df, ticker)
append_prices(df, ticker) ==
    /\ used + Cost(df) <= MaxRows
    /\ used' = used + Cost(df)
    /\ IF is_empty(df)
       THEN /\ last' = [NoCall EXCEPT !.op = "append_prices", !.ticker = ticker,
                           !.df = df, !.before = PartitionsOf(ticker)]
            /\ UNCHANGED <<prices, quarterly, annual, tdirs>>
       ELSE LET full == with_columns(df, ticker)
                years == years_of(full)
                merged(y) == merge(prices[<<ticker, y>>], filter_year(full, y))
            IN  /\ \E m \in [years -> UNION {merged(y) : y \in years}] :
                      /\ \A y \in years : m[y] \in merged(y)
                      /\ prices' = [p \in Tickers \X Years |->
                                      IF p[1] = ticker /\ p[2] \in years
                                      THEN write_parquet(prices[p], m[p[2]])
                                      ELSE prices[p]]
                /\ tdirs' = tdirs \cup {<<"prices", ticker>>}
                /\ last' = [NoCall EXCEPT !.op = "append_prices", !.ticker = ticker,
                               !.df = df, !.ret = years,
                               !.before = PartitionsOf(ticker)]
                /\ UNCHANGED <<quarterly, annual>>

\* df.with_columns(pl.lit(ticker).alias("ticker")) on a statement frame
with_ticker(df, ticker) ==
    [i \in DOMAIN df |->
        [c \in DOMAIN df[i] \cup {"ticker"} |->
            IF c = "ticker" THEN ticker ELSE df[i][c]]]

\* ParquetWriter.write_fundamentals_quarterly(df, ticker)
write_fundamentals_quarterly(df, ticker) ==
    /\ used + Cost(df) <= MaxRows
    /\ used' = used + Cost(df)
    /\ IF is_empty(df)
       THEN /\ last' = [NoCall EXCEPT !.op = "write_fundamentals_quarterly",
                           !.ticker = ticker, !.df = df]
            /\ UNCHANGED <<prices, quarterly, annual, tdirs>>
       ELSE /\ quarterly' = [quarterly EXCEPT
                             ![ticker] = write_parquet(@, with_ticker(df, ticker))]
            /\ tdirs' = tdirs \cup {<<"quarterly", ticker>>}
            /\ last' = [NoCall EXCEPT !.op = "write_fundamentals_quarterly",
                           !.ticker = ticker, !.df = df, !.path = TRUE]
            /\ UNCHANGED <<prices, annual>>

\* ParquetWriter.write_fundamentals_annual(df, ticker)
write_fundamentals_annual(df, ticker) ==
    /\ used + Cost(df) <= MaxRows
    /\ used' = used + Cost(df)
    /\ IF is_empty(df)
       THEN /\ last' = [NoCall EXCEPT !.op = "write_fundamentals_annual",
                           !.ticker = ticker, !.df = df]
            /\ UNCHANGED <<prices, quarterly, annual, tdirs>>
       ELSE /\ annual' = [annual EXCEPT
                          ![ticker] = write_parquet(@, with_ticker(df, ticker))]
            /\ tdirs' = tdirs \cup {<<"annual", ticker>>}
            /\ last' = [NoCall EXCEPT !.op = "write_fundamentals_annual",
                           !.ticker = ticker, !.df = df, !.path = TRUE]
            /\ UNCHANGED <<prices, quarterly>>

\* shutil.rmtree(<kind>/ticker=T): the directory and every file below it
rmtree_leaves_directory(kinds, ticker) ==
    /\ tdirs' = tdirs
    /\ prices' = [p \in Tickers \X Years |->
                    IF "prices" \in kinds /\ p[1] = ticker THEN NoFile ELSE prices[p]]
    /\ quarterly' = [t \in Tickers |->
                       IF "quarterly" \in kinds /\ t = ticker THEN NoFile ELSE quarterly[t]]
    /\ annual' = [t \in Tickers |->
                    IF "annual" \in kinds /\ t = ticker THEN NoFile ELSE annual[t]]
rmtree_spares_quarterly(kinds, ticker) ==
    /\ tdirs' = tdirs \ {<<k, ticker>> : k \in kinds \ {"quarterly"}}
    /\ prices' = [p \in Tickers \X Years |->
                    IF "prices" \in kinds /\ p[1] = ticker THEN NoFile ELSE prices[p]]
    /\ quarterly' = quarterly
    /\ annual' = [t \in Tickers |->
                    IF "annual" \in kinds /\ t = ticker THEN NoFile ELSE annual[t]]
rmtree(kinds, ticker) ==
    /\ tdirs' = tdirs \ {<<k, ticker>> : k \in kinds}
    /\ prices' = [p \in Tickers \X Years |->
                    IF "prices" \in kinds /\ p[1] = ticker THEN NoFile ELSE prices[p]]
    /\ quarterly' = [t \in Tickers |->
                       IF "quarterly" \in kinds /\ t = ticker THEN NoFile ELSE quarterly[t]]
    /\ annual' = [t \in Tickers |->
                    IF "annual" \in kinds /\ t = ticker THEN NoFile ELSE annual[t]]

\* ticker_path.exists() for <kind>/ticker=T
exists(kind, ticker) == <<kind, ticker>> \in tdirs

\* ParquetWriter.delete_ticker(ticker); shutil.rmtree raises on a path that does
\* not exist
delete_ticker(ticker) ==
    /\ used < MaxRows
    /\ used' = used + 1
    /\ LET found == {k \in Kinds : exists(k, ticker)}
       IN  /\ rmtree(found, ticker)
           /\ last' = [NoCall EXCEPT !.op = "delete_ticker", !.ticker = ticker,
                          !.deleted = Cardinality(found),
                          !.raised = \E k \in found : <<k, ticker>> \notin tdirs,
                          !.before = PartitionsOf(ticker)]

Next ==
    \/ \E df \in PriceFrames[MaxRows - used], t \in Tickers : write_prices(df, t)
    \/ \E df \in PriceFrames[MaxRows - used], t \in Tickers : append_prices(df, t)
    \/ \E df \in StatementFrames, t \in Tickers : write_fundamentals_quarterly(df, t)
    \/ \E df \in StatementFrames, t \in Tickers : write_fundamentals_annual(df, t)
    \/ \E t \in Tickers : delete_ticker(t)

Spec == Init /\ [][Next]_vars

\* ---------------------------------------------------------------- reader
\* sorted(tickers), for a set of tickers
RECURSIVE sorted(_)
sorted(S) ==
    IF S = {} THEN <<>>
    ELSE LET m == CHOOSE x \in S : \A y \in S : x <= y
         IN  <<m>> \o sorted(S \ {m})

RECURSIVE ConcatAll(_)
ConcatAll(frames) ==
    IF frames = <<>> THEN <<>> ELSE Head(frames) \o ConcatAll(Tail(frames))

\* the ticker= and year= path components in path order
TickerOrder == sorted(Tickers)
YearOrder == sorted(Years)

\* the data.parquet files below <kind>/, in path order; an absent file has no rows
FilesOf(kind) ==
    IF kind = "prices"
    THEN [i \in 1..(Len(TickerOrder) * Len(YearOrder)) |->
            prices[<<TickerOrder[((i - 1) \div Len(YearOrder)) + 1],
                     YearOrder[((i - 1) % Len(YearOrder)) + 1]>>]]
    ELSE [i \in 1..Len(TickerOrder) |->
            IF kind = "quarterly" THEN quarterly[TickerOrder[i]] ELSE annual[TickerOrder[i]]]

\* DataReader._has_parquet_files(base_path): any(base_path.glob("**/*.parquet"))
has_parquet_files_always(kind) == TRUE
has_parquet_files(kind) ==
    LET files == FilesOf(kind) IN \E i \in DOMAIN files : files[i].exists

\* a collected LazyFrame: its rows and columns, or the error collect() raises
EmptyFrame == [raised |-> FALSE, columns |-> {}, rows |-> <<>>]

PriceColumns == {"ticker", "date", "close", "year"}
StatementColumns ==
    {"ticker", "fiscal_period", "revenue", "gross_profit", "operating_income",
     "net_income", "eps", "shares_outstanding", "rd_expense", "capex"}

\* pl.scan_parquet(pattern): every row of every file the pattern matches; a
\* pattern that matches no file is an error
scan_parquet(kind) ==
    LET files == FilesOf(kind)
    IN  IF \A i \in DOMAIN files : ~files[i].exists
        THEN [raised |-> TRUE, columns |-> {}, rows |-> <<>>]
        ELSE [raised |-> FALSE,
              columns |-> IF kind = "prices" THEN PriceColumns ELSE StatementColumns,
              rows |-> ConcatAll([i \in DOMAIN files |-> files[i].rows])]

\* lf.filter(pl.col("ticker") == ticker)
filter_ticker(lf, ticker) ==
    IF lf.raised THEN lf
    ELSE [lf EXCEPT !.rows = SelectSeq(lf.rows, LAMBDA r : r.ticker = ticker)]

\* lf.filter(pl.col("date") >= start_date)
filter_start(lf, start_date) ==
    IF lf.raised THEN lf
    ELSE [lf EXCEPT !.rows = SelectSeq(lf.rows, LAMBDA r : r.date >= start_date)]

\* lf.filter(pl.col("date") <= end_date)
filter_end_exclusive(lf, end_date) ==
    IF lf.raised THEN lf
    ELSE [lf EXCEPT !.rows = SelectSeq(lf.rows, LAMBDA r : r.date < end_date)]
filter_end(lf, end_date) ==
    IF lf.raised THEN lf
    ELSE [lf EXCEPT !.rows = SelectSeq(lf.rows, LAMBDA r : r.date <= end_date)]

\* lf.select(cols)
select(lf, cols) ==
    IF lf.raised THEN lf
    ELSE [lf EXCEPT !.columns = cols,
                    !.rows = [i \in DOMAIN lf.rows |-> [c \in cols |-> lf.rows[i][c]]]]

\* An optional argument is a set: {} for None, {v} for the value v.
Some(opt) == CHOOSE v \in opt : TRUE

\* reader.py:64-69 and 96-100: the projection onto columns and the key columns
project_requested_only(lf, columns, keys) ==
    IF columns = {} \/ lf.raised THEN lf
    ELSE select(lf, Some(columns) \cap lf.columns)
project(lf, columns, keys) ==
    IF columns = {} \/ lf.raised THEN lf
    ELSE select(lf, (Some(columns) \cup keys) \cap lf.columns)

\* DataReader.get_prices(ticker, start_date, end_date, columns).collect()
get_prices(ticker, start_date, end_date, columns) ==
    IF ~has_parquet_files("prices") THEN EmptyFrame
    ELSE LET lf0 == scan_parquet("prices")
             lf1 == IF ticker # {} THEN filter_ticker(lf0, Some(ticker)) ELSE lf0
             lf2 == IF start_date # {} THEN filter_start(lf1, Some(start_date)) ELSE lf1
             lf3 == IF end_date # {} THEN filter_end(lf2, Some(end_date)) ELSE lf2
         IN  project(lf3, columns, {"ticker", "date"})

\* DataReader.get_fundamentals_quarterly(ticker, columns).collect()
get_fundamentals_quarterly(ticker, columns) ==
    IF ~has_parquet_files("quarterly") THEN EmptyFrame
    ELSE LET lf0 == scan_parquet("quarterly")
             lf1 == IF ticker # {} THEN filter_ticker(lf0, Some(ticker)) ELSE lf0
         IN  project(lf1, columns, {"ticker"})

\* DataReader.get_fundamentals_annual(ticker, columns).collect()
get_fundamentals_annual(ticker, columns) ==
    IF ~has_parquet_files("annual") THEN EmptyFrame
    ELSE LET lf0 == scan_parquet("annual")
             lf1 == IF ticker # {} THEN filter_ticker(lf0, Some(ticker)) ELSE lf0
         IN  project(lf1, columns, {"ticker"})

\* DataReader.list_tickers(data_type): the names of the ticker=... directories
\* below the base path, sorted
list_tickers(data_type) == sorted({t \in Tickers : <<data_type, t>> \in tdirs})

\* any(ticker_path.glob("**/*.parquet"))
glob_parquet(data_type, ticker) ==
    IF data_type = "prices" THEN \E y \in Years : prices[<<ticker, y>>].exists
    ELSE IF data_type = "quarterly" THEN quarterly[ticker].exists
    ELSE annual[ticker].exists

\* DataReader.has_data(ticker, data_type)
has_data(ticker, data_type) ==
    exists(data_type, ticker) /\ glob_parquet(data_type, ticker)

\* what collect() gives when the query names a column the frame does not have
\* (polars.exceptions.ColumnNotFoundError)
ColumnNotFound == [raised |-> TRUE, columns |-> {}, rows |-> <<>>]

\* the orders rows can have after sort(by, descending=True): rows of equal keys
\* come out in any order
RECURSIVE sort_rows_descending(_, _)
sort_rows_descending(rows, by) ==
    IF rows = <<>> THEN {<<>>}
    ELSE UNION {{<<rows[i]>> \o rest : rest \in sort_rows_descending(Without(rows, i), by)} :
                  i \in {k \in DOMAIN rows : \A j \in DOMAIN rows : rows[k][by] >= rows[j][by]}}

\* lf.sort(by, descending=True): the frames it can give
sort_descending(lf, by) ==
    IF lf.raised THEN {lf}
    ELSE IF by \notin lf.columns THEN {ColumnNotFound}
    ELSE {[lf EXCEPT !.rows = r] : r \in sort_rows_descending(lf.rows, by)}

\* lf.head(n)
head_all(lf, n) == lf
head(lf, n) ==
    IF lf.raised THEN lf
    ELSE [lf EXCEPT !.rows = SubSeq(lf.rows, 1, IF Len(lf.rows) < n THEN Len(lf.rows) ELSE n)]

\* DataReader.get_latest_price(ticker): the frames it can return
get_latest_price(ticker) ==
    {head(lf, 1) : lf \in sort_descending(get_prices({ticker}, {}, {}, {}), "date")}

Least(S) == CHOOSE x \in S : \A y \in S : x <= y
Greatest(S) == CHOOSE x \in S : \A y \in S : x >= y

\* lf.select(pl.col("date").min().alias("min_date"),
\*           pl.col("date").max().alias("max_date")): one row, whose values are
\* null when lf has no row
select_min_max(lf) ==
    IF lf.raised THEN lf
    ELSE IF "date" \notin lf.columns THEN ColumnNotFound
    ELSE LET ds == DateSet(lf.rows)
         IN  [raised |-> FALSE, columns |-> {"min_date", "max_date"},
              rows |-> <<[min_date |-> IF ds = {} THEN {} ELSE {Least(ds)},
                          max_date |-> IF ds = {} THEN {} ELSE {Greatest(ds)}]>>]

\* DataReader.get_date_range(ticker): the pair it returns, None being {}
get_date_range(ticker) ==
    LET df == select_min_max(get_prices({ticker}, {}, {}, {{"date"}}))
    IN  IF df.raised THEN [raised |-> TRUE, min_date |-> {}, max_date |-> {}]
        ELSE IF df.rows = <<>> THEN [raised |-> FALSE, min_date |-> {}, max_date |-> {}]
        ELSE [raised |-> FALSE, min_date |-> df.rows[1].min_date,
              max_date |-> df.rows[1].max_date]

\* lf.filter(pl.col("fiscal_period") <= as_of_date)
filter_fiscal_period_exclusive(lf, as_of_date) ==
    IF lf.raised THEN lf
    ELSE IF "fiscal_period" \notin lf.columns THEN ColumnNotFound
    ELSE [lf EXCEPT !.rows = SelectSeq(lf.rows, LAMBDA r : r.fiscal_period < as_of_date)]
filter_fiscal_period(lf, as_of_date) ==
    IF lf.raised THEN lf
    ELSE IF "fiscal_period" \notin lf.columns THEN ColumnNotFound
    ELSE [lf EXCEPT !.rows = SelectSeq(lf.rows, LAMBDA r : r.fiscal_period <= as_of_date)]

\* df[col].sum(): nulls are skipped, and the sum of no value at all is 0, not
\* null
RECURSIVE total(_, _)
total(rows, col) ==
    IF rows = <<>> THEN 0
    ELSE (IF Head(rows)[col] = {} THEN 0 ELSE Some(Head(rows)[col])) + total(Tail(rows), col)
sum_null_if_any_null(rows, col) ==
    IF \E i \in DOMAIN rows : rows[i][col] = {} THEN {} ELSE {total(rows, col)}
sum(rows, col) == {total(rows, col)}

\* reader.py:194-197: the columns of a numeric dtype (fiscal_period is a date,
\* ticker a string)
numeric_cols(df) == df.columns \ {"ticker", "fiscal_period", "fiscal_year", "year"}

\* reader.py:191-210: the one-row frame of the sums, or the empty frame
ttm_values(df, ticker) ==
    IF df.raised THEN df
    ELSE IF df.rows = <<>> THEN EmptyFrame
    ELSE LET cols == numeric_cols(df) \cup {"ticker", "quarters_included"}
         IN  [raised |-> FALSE, columns |-> cols,
              rows |-> <<[c \in cols |->
                            IF c = "ticker" THEN ticker
                            ELSE IF c = "quarters_included" THEN Len(df.rows)
                            ELSE sum(df.rows, c)]>>]

\* DataReader.get_ttm_fundamentals(ticker, as_of_date): the frames it can return
get_ttm_fundamentals(ticker, as_of_date) ==
    LET lf0 == get_fundamentals_quarterly({ticker}, {})
        lf1 == IF as_of_date # {} THEN filter_fiscal_period(lf0, Some(as_of_date)) ELSE lf0
    IN  {ttm_values(head(lf, 4), ticker) : lf \in sort_descending(lf1, "fiscal_period")}

\* ---------------------------------------------------------------- ratios
\* A float is the rational it stands for; the result of round(x, ndigits) is
\* the integer count of units of 10^-ndigits.  What a ratio method does is a
\* record: it raised, or it returned value ({} for None).
None == [raised |-> FALSE, value |-> {}]
Returned(v) == [raised |-> FALSE, value |-> {v}]
Raised == [raised |-> TRUE, value |-> {}]

\* n / d to the nearest integer, a tie going to the even one, for d > 0
RoundHalfEven(n, d) ==
    LET q == n \div d
        r == n - q * d
    IN  IF 2 * r < d THEN q
        ELSE IF 2 * r > d THEN q + 1
        ELSE IF q % 2 = 0 THEN q ELSE q + 1

\* round(n / d, ndigits), for d # 0
round(n, d, ndigits) ==
    IF d > 0 THEN RoundHalfEven(n * 10 ^ ndigits, d)
    ELSE RoundHalfEven(-(n * 10 ^ ndigits), -d)

abs(x) == IF x < 0 THEN -x ELSE x

\* RatioCalculator._get_ttm_eps(ttm), for a snapshot that is not empty: {} for
\* None, else the fraction num / den
get_ttm_eps(ttm) ==
    LET row == ttm.rows[1]
    IN  IF "eps" \in ttm.columns /\ row.eps # {}
        THEN {[num |-> Some(row.eps), den |-> 1]}
        ELSE IF /\ {"net_income", "shares_outstanding"} \subseteq ttm.columns
                /\ row.net_income # {}
                /\ row.shares_outstanding # {}
                /\ Some(row.shares_outstanding) > 0
        THEN {[num |-> Some(row.net_income), den |-> Some(row.shares_outstanding)]}
        ELSE {}

\* ratios.py:40-48: the price frames get_pe_ratio can work on
price_df(ticker, as_of_date) ==
    IF as_of_date # {}
    THEN {head(lf, 1) : lf \in sort_descending(get_prices({ticker}, {}, as_of_date, {}), "date")}
    ELSE get_latest_price(ticker)

\* ratios.py:50-68, for one price frame and one snapshot
pe(price, ttm) ==
    IF price.raised THEN Raised
    ELSE IF price.rows = <<>> THEN None
    ELSE IF ttm.raised THEN Raised
    ELSE IF ttm.rows = <<>> THEN None
    ELSE LET eps == get_ttm_eps(ttm)
         IN  IF eps = {} \/ Some(eps).num = 0 THEN None
             ELSE Returned(round(price.rows[1].close * Some(eps).den, Some(eps).num, 2))

\* RatioCalculator.get_pe_ratio(ticker, as_of_date): what it can do
get_pe_ratio(ticker, as_of_date) ==
    {pe(price, ttm) : price \in price_df(ticker, as_of_date),
                      ttm \in get_ttm_fundamentals(ticker, as_of_date)}

\* ratios.py:144-159, 177-192, 210-225: the margin of one snapshot; None / float
\* is a TypeError
margin(ttm, numerator) ==
    IF ttm.raised THEN Raised
    ELSE IF ttm.rows = <<>> THEN None
    ELSE IF numerator \notin ttm.columns \/ "revenue" \notin ttm.columns THEN None
    ELSE LET revenue == ttm.rows[1].revenue
             value == ttm.rows[1][numerator]
         IN  IF revenue = {} \/ Some(revenue) = 0 THEN None
             ELSE IF value = {} THEN Raised
             ELSE Returned(round(Some(value), Some(revenue), 4))

\* RatioCalculator.get_operating_margin(ticker, as_of_date)
get_operating_margin(ticker, as_of_date) ==
    {margin(ttm, "operating_income") : ttm \in get_ttm_fundamentals(ticker, as_of_date)}

\* RatioCalculator.get_net_profit_margin(ticker, as_of_date)
get_net_profit_margin(ticker, as_of_date) ==
    {margin(ttm, "net_income") : ttm \in get_ttm_fundamentals(ticker, as_of_date)}

\* RatioCalculator.get_gross_margin(ticker, as_of_date)
get_gross_margin(ticker, as_of_date) ==
    {margin(ttm, "gross_profit") : ttm \in get_ttm_fundamentals(ticker, as_of_date)}

\* ratios.py:304-319, 337-352: abs(field) / revenue of one snapshot
intensity(ttm, field) ==
    IF ttm.raised THEN Raised
    ELSE IF ttm.rows = <<>> THEN None
    ELSE IF field \notin ttm.columns \/ "revenue" \notin ttm.columns THEN None
    ELSE LET revenue == ttm.rows[1].revenue
             value == ttm.rows[1][field]
         IN  IF revenue = {} \/ Some(revenue) = 0 \/ value = {} THEN None
             ELSE Returned(round(abs(Some(value)), Some(revenue), 4))

\* RatioCalculator.get_rd_intensity(ticker, as_of_date)
get_rd_intensity(ticker, as_of_date) ==
    {intensity(ttm, "rd_expense") : ttm \in get_ttm_fundamentals(ticker, as_of_date)}

\* RatioCalculator.get_capex_ratio(ticker, as_of_date)
get_capex_ratio(ticker, as_of_date) ==
    {intensity(ttm, "capex") : ttm \in get_ttm_fundamentals(ticker, as_of_date)}

\* ratios.py:260-266, 397-402, 463-468: the quarters of the ticker up to
\* as_of_date, latest first, as the growth methods collect them
quarterly_df(ticker, as_of_date) ==
    LET lf0 == get_fundamentals_quarterly({ticker}, {})
        lf1 == IF as_of_date # {} THEN filter_fiscal_period(lf0, Some(as_of_date)) ELSE lf0
    IN  sort_descending(lf1, "fiscal_period")

\* ratios.py:470-486, for one collected frame
yoy_growth(df, column) ==
    IF df.raised THEN Raised
    ELSE IF df.rows = <<>> \/ column \notin df.columns THEN None
    ELSE IF Len(df.rows) < 5 THEN None
    ELSE LET current == df.rows[1][column]
             year_ago == df.rows[5][column]
         IN  IF year_ago = {} \/ Some(year_ago) = 0 \/ current = {} THEN None
             ELSE Returned(round(Some(current) - Some(year_ago), abs(Some(year_ago)), 4))

\* RatioCalculator._calculate_yoy_growth(ticker, column, as_of_date)
calculate_yoy_growth(ticker, column, as_of_date) ==
    {yoy_growth(df, column) : df \in quarterly_df(ticker, as_of_date)}

\* RatioCalculator.get_revenue_growth(ticker, as_of_date)
get_revenue_growth(ticker, as_of_date) ==
    calculate_yoy_growth(ticker, "revenue", as_of_date)

\* RatioCalculator._add_calculated_eps(df): calc_eps is eps where the frame has
\* that column, and net_income / shares_outstanding (null where either is null)
\* where it has those two; else the frame is left as it is.  The quotient is
\* kept as the pair of its terms; a share count of zero is not modelled.
add_calculated_eps(df) ==
    IF "eps" \in df.columns
    THEN [df EXCEPT !.columns = @ \cup {"calc_eps"},
                    !.rows = [i \in DOMAIN @ |->
                                [c \in DOMAIN @[i] \cup {"calc_eps"} |->
                                    IF c # "calc_eps" THEN @[i][c]
                                    ELSE IF @[i].eps = {} THEN {}
                                    ELSE {[num |-> Some(@[i].eps), den |-> 1]}]]]
    ELSE IF {"net_income", "shares_outstanding"} \subseteq df.columns
    THEN [df EXCEPT !.columns = @ \cup {"calc_eps"},
                    !.rows = [i \in DOMAIN @ |->
                                [c \in DOMAIN @[i] \cup {"calc_eps"} |->
                                    IF c # "calc_eps" THEN @[i][c]
                                    ELSE IF @[i].net_income = {} \/ @[i].shares_outstanding = {}
                                    THEN {}
                                    ELSE {[num |-> Some(@[i].net_income),
                                           den |-> Some(@[i].shares_outstanding)]}]]]
    ELSE df

\* (a.num / a.den - b.num / b.den) / abs(b.num / b.den), rounded to 4 digits,
\* for positive denominators
growth(a, b) ==
    round((a.num * b.den - b.num * a.den) * b.den, a.den * b.den * abs(b.num), 4)

\* ratios.py:268-286, for one collected frame
eps_growth(df0) ==
    IF df0.raised THEN Raised
    ELSE IF df0.rows = <<>> THEN None
    ELSE IF Len(df0.rows) < 5 THEN None
    ELSE LET df == add_calculated_eps(df0)
         IN  IF "calc_eps" \notin df.columns THEN None
             ELSE LET current == df.rows[1].calc_eps
                      year_ago == df.rows[5].calc_eps
                  IN  IF year_ago = {} \/ Some(year_ago).num = 0 \/ current = {} THEN None
                      ELSE Returned(growth(Some(current), Some(year_ago)))

\* RatioCalculator.get_eps_growth(ticker, as_of_date)
get_eps_growth(ticker, as_of_date) ==
    {eps_growth(df) : df \in quarterly_df(ticker, as_of_date)}

\* a + b of two quotients
plus(a, b) == [num |-> a.num * b.den + b.num * a.den, den |-> a.den * b.den]

\* df[lo..hi]["calc_eps"].sum(): nulls are skipped, the sum of no value is 0
RECURSIVE sum_calc_eps(_, _, _)
sum_calc_eps(rows, lo, hi) ==
    IF lo > hi THEN [num |-> 0, den |-> 1]
    ELSE IF rows[lo].calc_eps = {} THEN sum_calc_eps(rows, lo + 1, hi)
    ELSE plus(Some(rows[lo].calc_eps), sum_calc_eps(rows, lo + 1, hi))

\* the greatest m in lo .. hi - 1 with m ^ n <= x, for lo ^ n <= x < hi ^ n
RECURSIVE floor_root(_, _, _, _)
floor_root(lo, hi, n, x) ==
    IF hi - lo <= 1 THEN lo
    ELSE LET mid == (lo + hi) \div 2
         IN  IF mid ^ n <= x THEN floor_root(mid, hi, n, x) ELSE floor_root(lo, mid, n, x)

\* round((a / b) ** (1 / n) - 1, 4) for a, b > 0: with m the root of a / b in
\* halves of 10^-4, rounded down, the result is the nearest count of 10^-4, a
\* tie going to the even one (for the a, b and n whose powers fit an integer)
cagr(a, b, n) ==
    LET x == (a * 20000 ^ n) \div b
        m == floor_root(0, IF n = 1 THEN x + 1 ELSE 46341, n, x)
        exact == m ^ n * b = a * 20000 ^ n
        h == m - 20000
        q == h \div 2
    IN  IF h % 2 = 0 THEN q
        ELSE IF exact /\ q % 2 = 0 THEN q
        ELSE q + 1

\* ratios.py:404-429, for one collected frame: slice(required_quarters - 4, 4)
\* is the rows required_quarters - 4 .. required_quarters - 1, counted from 0
eps_cagr(df0, years) ==
    IF df0.raised THEN Raised
    ELSE IF df0.rows = <<>> THEN None
    ELSE IF Len(df0.rows) < years * 4 THEN None
    ELSE LET df == add_calculated_eps(df0)
             required_quarters == years * 4
         IN  IF "calc_eps" \notin df.columns THEN None
             ELSE LET current_ttm == sum_calc_eps(df.rows, 1, IF Len(df.rows) < 4 THEN Len(df.rows) ELSE 4)
                      past_ttm == sum_calc_eps(df.rows, required_quarters - 3, required_quarters)
                  IN  IF past_ttm.num <= 0 \/ current_ttm.num <= 0 THEN None
                      ELSE Returned(cagr(current_ttm.num * past_ttm.den,
                                         current_ttm.den * past_ttm.num, years))

\* RatioCalculator._calculate_eps_cagr(ticker, years, as_of_date)
calculate_eps_cagr(ticker, years, as_of_date) ==
    {eps_cagr(df, years) : df \in quarterly_df(ticker, as_of_date)}

\* ratios.py:115-126, for one PE and one growth rate: pe / (eps_cagr * 100) of
\* pe in hundredths and eps_cagr in ten-thousandths
peg(pe_ratio, growth_rate) ==
    IF pe_ratio.raised THEN Raised
    ELSE IF pe_ratio.value = {} \/ Some(pe_ratio.value) <= 0 THEN None
    ELSE IF growth_rate.raised THEN Raised
    ELSE IF growth_rate.value = {} \/ Some(growth_rate.value) <= 0 THEN None
    ELSE Returned(round(Some(pe_ratio.value), Some(growth_rate.value), 2))

\* RatioCalculator.get_peg_ratio(ticker, years, as_of_date)
get_peg_ratio(ticker, years, as_of_date) ==
    {peg(p, g) : p \in get_pe_ratio(ticker, as_of_date),
                 g \in calculate_eps_cagr(ticker, years, as_of_date)}

\* str(date)
str(d) == ToString(d)

\* the keys of get_all_ratios that hold a metric
MetricNames ==
    {"pe_ratio", "peg_ratio", "operating_margin", "net_profit_margin", "gross_margin",
     "revenue_growth", "eps_growth", "rd_intensity", "capex_ratio"}

\* ratios.py:367-380: the dict literal of one outcome of each getter; a getter
\* that raises ends the call
all_ratios(ticker, as_of_date, pe_ratio, peg_ratio, operating_margin, net_profit_margin, gross_margin, revenue_growth, eps_growth_, rd_intensity, capex_ratio) ==
    IF \/ pe_ratio.raised \/ peg_ratio.raised \/ operating_margin.raised
       \/ net_profit_margin.raised \/ gross_margin.raised \/ revenue_growth.raised
       \/ eps_growth_.raised \/ rd_intensity.raised \/ capex_ratio.raised
    THEN Raised
    ELSE Returned([ticker |-> ticker,
                   as_of_date |-> IF as_of_date # {} THEN str(Some(as_of_date)) ELSE "latest",
                   pe_ratio |-> pe_ratio.value,
                   peg_ratio |-> peg_ratio.value,
                   operating_margin |-> operating_margin.value,
                   net_profit_margin |-> net_profit_margin.value,
                   gross_margin |-> gross_margin.value,
                   revenue_growth |-> revenue_growth.value,
                   eps_growth |-> eps_growth_.value,
                   rd_intensity |-> rd_intensity.value,
                   capex_ratio |-> capex_ratio.value])

\* RatioCalculator.get_all_ratios(ticker, as_of_date): get_peg_ratio is called
\* with its default of 5 years
get_all_ratios(ticker, as_of_date) ==
    {all_ratios(ticker, as_of_date, a, b, c, d, e, f, g, h, i) :
        a \in get_pe_ratio(ticker, as_of_date),
        b \in get_peg_ratio(ticker, 5, as_of_date),
        c \in get_operating_margin(ticker, as_of_date),
        d \in get_net_profit_margin(ticker, as_of_date),
        e \in get_gross_margin(ticker, as_of_date),
        f \in get_revenue_growth(ticker, as_of_date),
        g \in get_eps_growth(ticker, as_of_date),
        h \in get_rd_intensity(ticker, as_of_date),
        i \in get_capex_ratio(ticker, as_of_date)}

\* ---------------------------------------------------------------- metrics
\* A DataFrame of the metrics engine is a frame as above; a row holds the ticker
\* and, for every other column, {} for null or {v}.

\* str(e) of the exception a ratio getter raises
ErrorText == "ColumnNotFoundError"

\* pl.DataFrame(results) of a list of dicts: the columns are the keys of all the
\* dicts, and a dict without a key has null there
DataFrame(results) ==
    LET cols == UNION {DOMAIN results[i] : i \in DOMAIN results}
    IN  [raised |-> FALSE, columns |-> cols,
         rows |-> [i \in DOMAIN results |->
                     [c \in cols |->
                        IF c \notin DOMAIN results[i] THEN {}
                        ELSE IF c \in MetricNames \cup {"ticker"} THEN results[i][c]
                        ELSE {results[i][c]}]]]

\* metrics.py:41-50: the lists of dicts the loop can build, an entry per ticker
RECURSIVE results_stop_at_error(_, _)
results_stop_at_error(tickers, as_of_date) ==
    IF tickers = <<>> THEN {<<>>}
    ELSE UNION {IF ratios.raised THEN {<<[ticker |-> Head(tickers), error |-> ErrorText]>>}
                ELSE {<<Some(ratios.value)>> \o rest :
                        rest \in results_stop_at_error(Tail(tickers), as_of_date)} :
                  ratios \in get_all_ratios(Head(tickers), as_of_date)}
RECURSIVE results_of(_, _)
results_of(tickers, as_of_date) ==
    IF tickers = <<>> THEN {<<>>}
    ELSE {<<IF ratios.raised THEN [ticker |-> Head(tickers), error |-> ErrorText]
            ELSE Some(ratios.value)>> \o rest :
            ratios \in get_all_ratios(Head(tickers), as_of_date),
            rest \in results_of(Tail(tickers), as_of_date)}

\* MetricsEngine.calculate_all_ratios(tickers, as_of_date): the frames it can
\* return; tickers is {} for None
calculate_all_ratios(tickers, as_of_date) ==
    {DataFrame(results) :
        results \in results_of(IF tickers = {} THEN list_tickers("prices") ELSE Some(tickers),
                               as_of_date)}

\* df.filter(pl.col(column) >= min_val): a null compares to null and is dropped
filter_min(df, column, min_val) ==
    [df EXCEPT !.rows = SelectSeq(@, LAMBDA r : r[column] # {} /\ Some(r[column]) >= min_val)]

\* df.filter(pl.col(column) <= max_val)
filter_max(df, column, max_val) ==
    [df EXCEPT !.rows = SelectSeq(@, LAMBDA r : r[column] # {} /\ Some(r[column]) <= max_val)]

\* metrics.py:80-90: the loop over filters.items(); a filter is a record of the
\* column and its two bounds, in the unit the column's values are counted in
RECURSIVE apply_filters(_, _)
apply_filters(df, filters) ==
    IF filters = <<>> THEN df
    ELSE LET f == Head(filters)
             df1 == IF f.min_val # {} THEN filter_min(df, f.column, Some(f.min_val)) ELSE df
             df2 == IF f.max_val # {} THEN filter_max(df1, f.column, Some(f.max_val)) ELSE df1
         IN  apply_filters(IF f.column \notin df.columns THEN df ELSE df2, Tail(filters))

\* MetricsEngine.screen_stocks(filters, tickers): the frames it can return
screen_stocks(filters, tickers) ==
    {IF filters = {} THEN df ELSE apply_filters(df, Some(filters)) :
        df \in calculate_all_ratios(tickers, {})}

\* MetricsEngine.compare_tickers(tickers, metrics): the frames it can return
compare_tickers(tickers, metrics) ==
    {IF metrics = {} THEN df
     ELSE IF "ticker" \notin df.columns THEN ColumnNotFound
     ELSE select(df, {"ticker"} \cup (Some(metrics) \cap df.columns)) :
        df \in calculate_all_ratios(tickers, {})}

\* the number of decimals a metric is rounded to
Decimals(metric) == IF metric \in {"pe_ratio", "peg_ratio"} THEN 2 ELSE 4

\* the columns of a numeric dtype: a metric column with a value in some row (a
\* column of nulls only has the dtype Null)
numeric_columns(df) ==
    {c \in df.columns \ {"ticker", "as_of_date", "error"} :
        \E i \in DOMAIN df.rows : df.rows[i][c] # {}}

\* round(values.mean(), 4) of the values of a column that are not null, as a
\* count of 10^-4
mean_counts_nulls(df, col) ==
    round(total(df.rows, col), Len(df.rows) * 10 ^ Decimals(col), 4)
mean(df, col) ==
    round(total(df.rows, col),
          Len(SelectSeq(df.rows, LAMBDA r : r[col] # {})) * 10 ^ Decimals(col), 4)

\* metrics.py:126-146, for one batch frame: the dict it returns
sector_averages(df, tickers) ==
    IF df.rows = <<>> THEN [c \in {} |-> 0]
    ELSE [c \in numeric_columns(df) \cup {"ticker_count"} |->
            IF c = "ticker_count" THEN Len(tickers) ELSE mean(df, c)]

\* MetricsEngine.get_sector_averages(tickers): the dicts it can return
get_sector_averages(tickers) ==
    {sector_averages(df, tickers) : df \in calculate_all_ratios({tickers}, {})}

\* df.filter(pl.col(metric).is_not_null())
filter_is_not_null(df, metric) ==
    [df EXCEPT !.rows = SelectSeq(@, LAMBDA r : r[metric] # {})]

\* the orders rows can have after sort(metric, descending=descending): rows of
\* equal values come out in any order
RECURSIVE sort_rows_by(_, _, _)
sort_rows_by(rows, metric, descending) ==
    IF rows = <<>> THEN {<<>>}
    ELSE UNION {{<<rows[i]>> \o rest : rest \in sort_rows_by(Without(rows, i), metric, descending)} :
                  i \in {k \in DOMAIN rows : \A j \in DOMAIN rows :
                            IF descending THEN Some(rows[k][metric]) >= Some(rows[j][metric])
                            ELSE Some(rows[k][metric]) <= Some(rows[j][metric])}}

\* df.with_row_index("rank", offset=1)
with_row_index_from_zero(df) ==
    [df EXCEPT !.columns = @ \cup {"rank"},
               !.rows = [i \in DOMAIN @ |->
                           [c \in DOMAIN @[i] \cup {"rank"} |->
                               IF c = "rank" THEN i - 1 ELSE @[i][c]]]]
with_row_index(df) ==
    [df EXCEPT !.columns = @ \cup {"rank"},
               !.rows = [i \in DOMAIN @ |->
                           [c \in DOMAIN @[i] \cup {"rank"} |->
                               IF c = "rank" THEN i ELSE @[i][c]]]]

\* MetricsEngine.rank_by_metric(metric, tickers, ascending, top_n): the frames it
\* can return; top_n is {} for None
rank_by_metric(metric, tickers, ascending, top_n) ==
    UNION {IF metric \notin df.columns THEN {EmptyFrame}
           ELSE {LET ranked == with_row_index([df EXCEPT !.rows = rows])
                     cut == IF top_n # {} THEN head(ranked, Some(top_n)) ELSE ranked
                 IN  select(cut, {"rank", "ticker", metric}) :
                    rows \in sort_rows_by(filter_is_not_null(df, metric).rows, metric, ~ascending)} :
             df \in calculate_all_ratios(tickers, {})}

\* the arguments the readers are called with
TickerArgs == {{}} \cup {{t} : t \in Tickers}
DateArgs == {{}} \cup {{d} : d \in Dates}
ColumnArgs == {{}, {{}}, {{"close"}}, {{"revenue", "volume"}}}

\* ---------------------------------------------------------------- analysis
\* The query and ratio methods over a populated store: the store is any of
\* those below, as write_prices and write_fundamentals_quarterly leave them on a
\* fresh data_path, and each step is one call of a method.

\* quarterly statements in the order a caller holds them: two quarters of one
\* fiscal_period, null and zero values, a negative value
Quarters ==
    <<Statement(103, {3}, {}, {2}, {-1}, {-1}, {}, {}, {2}),
      Statement(101, {4}, {2}, {1}, {2}, {1}, {2}, {1}, {-1}),
      Statement(201, {1}, {1}, {1}, {1}, {2}, {1}, {}, {}),
      Statement(102, {0}, {1}, {}, {}, {0}, {0}, {-2}, {}),
      Statement(101, {}, {}, {}, {3}, {}, {1}, {}, {})>>

\* the frames a caller can make of them: any of the rows, in that order
QuarterFrames == {Pick(Quarters, I, 1) : I \in SUBSET DOMAIN Quarters}

\* the price frames written for the tickers: none, the other ticker's only, both
QuotedFrames ==
    {[t \in Tickers |-> <<>>],
     [t \in Tickers |-> IF t = 1 THEN <<>> ELSE <<[date |-> 201, close |-> 7]>>],
     [t \in Tickers |-> IF t = 1
                        THEN <<[date |-> 201, close |-> 5], [date |-> 102, close |-> 2]>>
                        ELSE <<[date |-> 201, close |-> 7]>>]}

\* the file write_prices / write_fundamentals_quarterly leaves for a frame on a
\* fresh data_path: none for an empty frame
Written(rows) == IF is_empty(rows) THEN NoFile ELSE write_parquet(NoFile, rows)

\* one call of a reader or ratio method and what it returned
Call(op, ticker, as_of_date, ret) ==
    [op |-> op, ticker |-> ticker, as_of_date |-> as_of_date, ret |-> ret]

InitAnalysis ==
    /\ \E q \in QuotedFrames :
          prices = [p \in Tickers \X Years |->
                      Written(filter_year(with_columns(q[p[1]], p[1]), p[2]))]
    /\ \E df \in QuarterFrames, other \in StatementFrames :
          quarterly = [t \in Tickers |->
                         Written(with_ticker(IF t = 1 THEN df ELSE other, t))]
    /\ annual = [t \in Tickers |-> NoFile]
    /\ tdirs = {<<"prices", t>> : t \in {u \in Tickers : \E y \in Years : prices[<<u, y>>].exists}}
                 \cup {<<"quarterly", t>> : t \in {u \in Tickers : quarterly[u].exists}}
    /\ last = NoCall
    /\ used = 0

\* a call reads the store and changes nothing of it
Returns(op, ticker, as_of_date, results) ==
    /\ used < MaxCalls
    /\ used' = used + 1
    /\ \E ret \in results : last' = Call(op, ticker, as_of_date, ret)
    /\ UNCHANGED <<prices, quarterly, annual, tdirs>>

GetTtmFundamentals(ticker, as_of_date) ==
    Returns("get_ttm_fundamentals", ticker, as_of_date,
            get_ttm_fundamentals(ticker, as_of_date))
GetTtmEps(ticker, as_of_date) ==
    Returns("get_ttm_eps", ticker, as_of_date,
            {IF ttm.raised THEN Raised
             ELSE IF ttm.rows = <<>> THEN None
             ELSE [raised |-> FALSE, value |-> get_ttm_eps(ttm)] :
                ttm \in get_ttm_fundamentals(ticker, as_of_date)})
GetPeRatio(ticker, as_of_date) ==
    Returns("get_pe_ratio", ticker, as_of_date, get_pe_ratio(ticker, as_of_date))
GetOperatingMargin(ticker, as_of_date) ==
    Returns("get_operating_margin", ticker, as_of_date,
            get_operating_margin(ticker, as_of_date))
GetNetProfitMargin(ticker, as_of_date) ==
    Returns("get_net_profit_margin", ticker, as_of_date,
            get_net_profit_margin(ticker, as_of_date))
GetGrossMargin(ticker, as_of_date) ==
    Returns("get_gross_margin", ticker, as_of_date,
            get_gross_margin(ticker, as_of_date))
GetRdIntensity(ticker, as_of_date) ==
    Returns("get_rd_intensity", ticker, as_of_date,
            get_rd_intensity(ticker, as_of_date))
GetCapexRatio(ticker, as_of_date) ==
    Returns("get_capex_ratio", ticker, as_of_date,
            get_capex_ratio(ticker, as_of_date))

NextAnalysis ==
    \/ \E t \in Tickers, a \in DateArgs : GetTtmFundamentals(t, a)
    \/ \E t \in Tickers, a \in DateArgs : GetTtmEps(t, a)
    \/ \E t \in Tickers, a \in DateArgs : GetPeRatio(t, a)
    \/ \E t \in Tickers, a \in DateArgs : GetOperatingMargin(t, a)
    \/ \E t \in Tickers, a \in DateArgs : GetNetProfitMargin(t, a)
    \/ \E t \in Tickers, a \in DateArgs : GetGrossMargin(t, a)
    \/ \E t \in Tickers, a \in DateArgs : GetRdIntensity(t, a)
    \/ \E t \in Tickers, a \in DateArgs : GetCapexRatio(t, a)

SpecAnalysis == InitAnalysis /\ [][NextAnalysis]_vars

\* ---------------------------------------------------------------- queries
\* The three scans over a populated store: the store is any of those below, as
\* write_prices and the two fundamentals writers leave them on a fresh
\* data_path, and each step is one call of a scan.

\* price rows in the order a caller holds them: two years, two rows of one date
Quotes ==
    <<[date |-> 201, close |-> 1], [date |-> 101, close |-> 1],
      [date |-> 102, close |-> 1], [date |-> 101, close |-> 2]>>

\* the frames a caller can make of them: any of the rows, in that order
QuoteFrames == {Pick(Quotes, I, 1) : I \in SUBSET DOMAIN Quotes}

\* one call of a scan and the frame it collects
Query(op, ticker, start_date, end_date, columns, ret) ==
    [op |-> op, ticker |-> ticker, start_date |-> start_date,
     end_date |-> end_date, columns |-> columns, ret |-> ret]

\* ticker 1 holds any of the price frames and no or one statement of each kind;
\* ticker 2 holds nothing, or a row of each kind
InitQuery ==
    /\ \E df \in QuoteFrames, other \in SeqsUpTo({Quotes[3]}, 1),
          sf \in StatementFrames, held \in StatementFrames \ {<<>>} :
          LET statements == [t \in Tickers |->
                               IF t = 1 THEN sf ELSE IF other = <<>> THEN <<>> ELSE held]
          IN  /\ prices = [p \in Tickers \X Years |->
                             Written(filter_year(with_columns(IF p[1] = 1 THEN df ELSE other,
                                                              p[1]), p[2]))]
              /\ quarterly = [t \in Tickers |-> Written(with_ticker(statements[t], t))]
              /\ annual = [t \in Tickers |-> Written(with_ticker(statements[t], t))]
    /\ tdirs = {<<"prices", t>> : t \in {u \in Tickers : \E y \in Years : prices[<<u, y>>].exists}}
                 \cup {<<"quarterly", t>> : t \in {u \in Tickers : quarterly[u].exists}}
                 \cup {<<"annual", t>> : t \in {u \in Tickers : annual[u].exists}}
    /\ last = NoCall
    /\ used = 0

GetPrices(ticker, start_date, end_date, columns) ==
    /\ used < MaxCalls
    /\ used' = used + 1
    /\ last' = Query("get_prices", ticker, start_date, end_date, columns,
                     get_prices(ticker, start_date, end_date, columns))
    /\ UNCHANGED <<prices, quarterly, annual, tdirs>>

GetFundamentalsQuarterly(ticker, columns) ==
    /\ used < MaxCalls
    /\ used' = used + 1
    /\ last' = Query("get_fundamentals_quarterly", ticker, {}, {}, columns,
                     get_fundamentals_quarterly(ticker, columns))
    /\ UNCHANGED <<prices, quarterly, annual, tdirs>>

GetFundamentalsAnnual(ticker, columns) ==
    /\ used < MaxCalls
    /\ used' = used + 1
    /\ last' = Query("get_fundamentals_annual", ticker, {}, {}, columns,
                     get_fundamentals_annual(ticker, columns))
    /\ UNCHANGED <<prices, quarterly, annual, tdirs>>

NextQuery ==
    \/ \E t \in TickerArgs, s \in DateArgs, e \in DateArgs, c \in ColumnArgs :
          GetPrices(t, s, e, c)
    \/ \E t \in TickerArgs, c \in ColumnArgs : GetFundamentalsQuarterly(t, c)
    \/ \E t \in TickerArgs, c \in ColumnArgs : GetFundamentalsAnnual(t, c)

SpecQuery == InitQuery /\ [][NextQuery]_vars

\* ---------------------------------------------------------------- growth
\* The growth methods and get_all_ratios over a store with a longer history:
\* the store is any of those below, as write_prices and
\* write_fundamentals_quarterly leave them on a fresh data_path, and each step
\* is one call of a method.

\* quarterly statements in the order a caller holds them: eleven quarters of
\* three years, one of them filed twice, with null, zero and negative values
History ==
    <<Statement(301, {8}, {4}, {2}, {1}, {1}, {1}, {1}, {1}),
      Statement(204, {6}, {3}, {2}, {1}, {1}, {2}, {1}, {-1}),
      Statement(203, {}, {3}, {2}, {1}, {1}, {2}, {}, {}),
      Statement(202, {6}, {3}, {2}, {1}, {1}, {2}, {}, {}),
      Statement(201, {0}, {2}, {1}, {1}, {0}, {2}, {}, {}),
      Statement(104, {4}, {2}, {1}, {1}, {1}, {4}, {}, {}),
      Statement(103, {4}, {2}, {1}, {-1}, {-1}, {4}, {}, {}),
      Statement(102, {2}, {1}, {1}, {1}, {}, {4}, {}, {}),
      Statement(102, {3}, {1}, {1}, {1}, {1}, {4}, {}, {}),
      Statement(101, {2}, {1}, {1}, {0}, {0}, {4}, {}, {}),
      Statement(101, {-2}, {1}, {1}, {1}, {1}, {0}, {}, {})>>

\* the frames a caller can make of them: the latest k quarters, or those
\* without one of them
HistoryFrames ==
    {Pick(History, (1..k) \ {j}, 1) : k \in 0..Len(History), j \in 0..Len(History)}

\* one call of a growth method and what it returned; years is {} for a method
\* that takes none
GrowthCall(op, ticker, years, as_of_date, ret) ==
    [op |-> op, ticker |-> ticker, years |-> years, as_of_date |-> as_of_date, ret |-> ret]

InitGrowth ==
    /\ \E q \in QuotedFrames :
          prices = [p \in Tickers \X Years |->
                      Written(filter_year(with_columns(q[p[1]], p[1]), p[2]))]
    /\ \E df \in HistoryFrames, other \in StatementFrames :
          quarterly = [t \in Tickers |->
                         Written(with_ticker(IF t = 1 THEN df ELSE other, t))]
    /\ annual = [t \in Tickers |-> NoFile]
    /\ tdirs = {<<"prices", t>> : t \in {u \in Tickers : \E y \in Years : prices[<<u, y>>].exists}}
                 \cup {<<"quarterly", t>> : t \in {u \in Tickers : quarterly[u].exists}}
    /\ last = NoCall
    /\ used = 0

\* a call reads the store and changes nothing of it
Grows(op, ticker, years, as_of_date, results) ==
    /\ used < MaxCalls
    /\ used' = used + 1
    /\ \E ret \in results : last' = GrowthCall(op, ticker, years, as_of_date, ret)
    /\ UNCHANGED <<prices, quarterly, annual, tdirs>>

GetRevenueGrowth(ticker, as_of_date) ==
    Grows("get_revenue_growth", ticker, {}, as_of_date, get_revenue_growth(ticker, as_of_date))
GetEpsGrowth(ticker, as_of_date) ==
    Grows("get_eps_growth", ticker, {}, as_of_date, get_eps_growth(ticker, as_of_date))
CalculateEpsCagr(ticker, years, as_of_date) ==
    Grows("_calculate_eps_cagr", ticker, {years}, as_of_date,
          calculate_eps_cagr(ticker, years, as_of_date))
GetPegRatio(ticker, years, as_of_date) ==
    Grows("get_peg_ratio", ticker, {years}, as_of_date,
          get_peg_ratio(ticker, years, as_of_date))
GetAllRatios(ticker, as_of_date) ==
    Grows("get_all_ratios", ticker, {}, as_of_date, get_all_ratios(ticker, as_of_date))

\* the growth rate is taken over one year or two
NextGrowth ==
    \/ \E t \in Tickers, a \in DateArgs : GetRevenueGrowth(t, a)
    \/ \E t \in Tickers, a \in DateArgs : GetEpsGrowth(t, a)
    \/ \E t \in Tickers, y \in {1, 2}, a \in DateArgs : CalculateEpsCagr(t, y, a)
    \/ \E t \in Tickers, y \in {1, 2}, a \in DateArgs : GetPegRatio(t, y, a)
    \/ \E t \in Tickers, a \in DateArgs : GetAllRatios(t, a)

SpecGrowth == InitGrowth /\ [][NextGrowth]_vars

\* ---------------------------------------------------------------- batches
\* The metrics engine over a populated store: the store is any of those below,
\* as write_prices and write_fundamentals_quarterly leave them on a fresh
\* data_path, and each step is one call of a method.

\* tickers in one requested list
MaxBatch == 2

\* the lists of tickers a caller can request; a ticker can be named twice
TickerLists == SeqsUpTo(Tickers, MaxBatch)
\* tickers=None or a list
TickerListArgs == {{}} \cup {{l} : l \in TickerLists}

\* a filter of screen_stocks: column -> (min_val, max_val)
Filter(column, min_val, max_val) ==
    [column |-> column, min_val |-> min_val, max_val |-> max_val]
\* filters=None, or the items of the dict in order; a PE bound is a count of
\* hundredths, a margin bound one of ten-thousandths
FilterArgs ==
    {{},
     {<<>>},
     {<<Filter("pe_ratio", {167}, {700})>>},
     {<<Filter("pe_ratio", {168}, {})>>},
     {<<Filter("pe_ratio", {}, {699})>>},
     {<<Filter("pe_ratio", {}, {})>>},
     {<<Filter("volume", {0}, {})>>},
     {<<Filter("operating_margin", {0}, {}), Filter("pe_ratio", {0}, {2500})>>}}


\* the quarterly frames written for ticker 1: none, or five quarters
BatchFrames == {<<>>, Pick(History, 2..6, 1)}

\* one call of a method of the engine: its arguments and what it returned
Request(op, args, ret) == [op |-> op, args |-> args, ret |-> ret]

InitBatch ==
    /\ \E q \in QuotedFrames :
          prices = [p \in Tickers \X Years |->
                      Written(filter_year(with_columns(q[p[1]], p[1]), p[2]))]
    /\ \E df \in BatchFrames, other \in StatementFrames :
          quarterly = [t \in Tickers |->
                         Written(with_ticker(IF t = 1 THEN df ELSE other, t))]
    /\ annual = [t \in Tickers |-> NoFile]
    /\ tdirs = {<<"prices", t>> : t \in {u \in Tickers : \E y \in Years : prices[<<u, y>>].exists}}
                 \cup {<<"quarterly", t>> : t \in {u \in Tickers : quarterly[u].exists}}
    /\ last = NoCall
    /\ used = 0

\* a call reads the store and changes nothing of it; the engine keeps nothing
\* from one call to the next, so a run is one call
Answers(op, args, results) ==
    /\ last = NoCall
    /\ \E ret \in results : last' = Request(op, args, ret)
    /\ UNCHANGED <<prices, quarterly, annual, tdirs, used>>

CalculateAllRatios(tickers, as_of_date) ==
    Answers("calculate_all_ratios", [tickers |-> tickers, as_of_date |-> as_of_date],
            calculate_all_ratios(tickers, as_of_date))
ScreenStocks(filters, tickers) ==
    Answers("screen_stocks", [filters |-> filters, tickers |-> tickers],
            screen_stocks(filters, tickers))
CompareTickers(tickers, metrics) ==
    Answers("compare_tickers", [tickers |-> tickers, metrics |-> metrics],
            compare_tickers({tickers}, metrics))
GetSectorAverages(tickers) ==
    Answers("get_sector_averages", [tickers |-> tickers], get_sector_averages(tickers))
RankByMetric(metric, tickers, ascending, top_n) ==
    Answers("rank_by_metric",
            [metric |-> metric, tickers |-> tickers, ascending |-> ascending, top_n |-> top_n],
            rank_by_metric(metric, tickers, ascending, top_n))

\* ranked by two of the ratios and by an unknown name; top_n is None, 0 or 1
NextBatch ==
    \/ \E l \in TickerListArgs, a \in DateArgs : CalculateAllRatios(l, a)
    \/ \E f \in FilterArgs, l \in TickerListArgs : ScreenStocks(f, l)
    \/ \E l \in TickerLists, m \in {{}, {{"pe_ratio", "volume"}}} : CompareTickers(l, m)
    \/ \E l \in TickerLists : GetSectorAverages(l)
    \/ \E m \in {"pe_ratio", "operating_margin", "volume"}, l \in TickerListArgs,
          a \in BOOLEAN, n \in {{}, {0}, {1}} :
          RankByMetric(m, l, a, n)

SpecBatch == InitBatch /\ [][NextBatch]_vars

\* ---------------------------------------------------------------- store
\* Writer, reader, ratio calculator and metrics engine on one data_path: the run
\* starts on the fresh directory, and each step is one call of a writer method
\* or of a reading method.

\* what a reading method can return for its arguments on the store as it is
Outcomes(op, args) ==
    CASE op = "list_tickers" -> {list_tickers(args.data_type)}
      [] op = "has_data" -> {has_data(args.ticker, args.data_type)}
      [] op = "get_date_range" -> {get_date_range(args.ticker)}
      [] op = "get_latest_price" -> get_latest_price(args.ticker)
      [] op = "get_prices" -> {get_prices(args.ticker, {}, args.end_date, {})}
      [] op = "get_ttm_fundamentals" -> get_ttm_fundamentals(args.ticker, args.as_of_date)
      [] op = "get_all_ratios" -> get_all_ratios(args.ticker, args.as_of_date)
      [] op = "screen_stocks" -> screen_stocks(args.filters, args.tickers)

\* reader.py, ratios.py and metrics.py hold no call of the writer and open no
\* file for writing: a reading call changes nothing of the store.  The call is
\* recorded with what it returned and, in before, what the call before it
\* returned when that was the same call ({} when it was another)
ReadsAndMakesDirectory(op, args) ==
    /\ \E ret \in Outcomes(op, args) :
          last' = [op |-> op, args |-> args, ret |-> ret, before |-> {}]
    /\ tdirs' = tdirs \cup {<<"prices", 1>>}
    /\ UNCHANGED <<prices, quarterly, annual, used>>
Reads(op, args) ==
    /\ \E ret \in Outcomes(op, args) :
          last' = [op |-> op, args |-> args, ret |-> ret,
                   before |-> IF last.op = op /\ last.args = args THEN {last.ret} ELSE {}]
    /\ UNCHANGED <<prices, quarterly, annual, tdirs, used>>

\* the frames written are of one price row at most, or of two rows of one
\* date, and of one or two quarters
NextStore ==
    \/ \E df \in SeqsUpTo(PriceRows, 1) \cup {<<[date |-> 101, close |-> 1], [date |-> 101, close |-> 2]>>},
          t \in Tickers : write_prices(df, t)
    \/ \E df \in SeqsUpTo(PriceRows, 1), t \in Tickers : append_prices(df, t)
    \/ \E df \in {<<>>, <<Quarters[2]>>, <<Quarters[3], Quarters[2]>>}, t \in Tickers :
          write_fundamentals_quarterly(df, t)
    \/ \E df \in StatementFrames, t \in Tickers : write_fundamentals_annual(df, t)
    \/ \E t \in Tickers : delete_ticker(t)
    \/ \E k \in {"prices", "quarterly"} : Reads("list_tickers", [data_type |-> k])
    \/ Reads("has_data", [ticker |-> 1, data_type |-> "prices"])
    \/ Reads("get_date_range", [ticker |-> 1])
    \/ Reads("get_latest_price", [ticker |-> 1])
    \/ Reads("get_prices", [ticker |-> {1}, end_date |-> {101}])
    \/ Reads("get_ttm_fundamentals", [ticker |-> 1, as_of_date |-> {}])
    \/ Reads("get_all_ratios", [ticker |-> 1, as_of_date |-> {102}])
    \/ Reads("screen_stocks",
             [filters |-> {<<Filter("pe_ratio", {}, {700})>>}, tickers |-> {}])

SpecStore == Init /\ [][NextStore]_vars

\* ---------------------------------------------------------------- ingestion
\* DataIngestion.update_prices_incremental on a store that write_prices filled:
\* the run starts on the fresh directory, and each step is a write_prices or an
\* incremental update with what the client downloaded.

\* the frames SimFinClient.get_prices(refresh=True) can return, a row carrying
\* its ticker: none (the download failed), every ticker's whole history with
\* two rows of one date, a later day only
Downloads ==
    LET Quote(ticker, date, close) == [ticker |-> ticker, date |-> date, close |-> close]
    IN  {<<>>,
         <<Quote(1, 101, 9), Quote(1, 102, 9), Quote(1, 201, 8), Quote(1, 201, 9),
           Quote(2, 102, 9)>>,
         <<Quote(2, 201, 9), Quote(1, 102, 9)>>}

\* all_prices.filter((pl.col("ticker") == ticker) & (pl.col("date") > max_date))
filter_new_from_max_date(all_prices, ticker, max_date) ==
    SelectSeq(all_prices, LAMBDA r : r.ticker = ticker /\ r.date >= max_date)
filter_new(all_prices, ticker, max_date) ==
    SelectSeq(all_prices, LAMBDA r : r.ticker = ticker /\ r.date > max_date)

\* len(ticker_prices) summed over the tickers of S, new being the ticker_prices
\* of each
RECURSIVE new_records(_, _)
new_records(new, S) ==
    IF S = {} THEN 0
    ELSE LET t == CHOOSE x \in S : TRUE
         IN  Len(new[t]) + new_records(new, S \ {t})

\* one call of update_prices_incremental: its arguments, the summary it
\* returned, and the partitions and ticker directories as it found them
Update(tickers, all_prices, summary) ==
    [op |-> "update_prices_incremental", tickers |-> tickers, all_prices |-> all_prices,
     summary |-> summary, before |-> prices, dirs |-> tdirs]

\* ingestion.py:155-183: the loop over the tickers of list and the summary,
\* new[t] being the ticker_prices of ticker t (none when its max_date is None
\* or get_date_range raised) and failed the positions of list where
\* get_date_range raised.  The rows handed to the writer count for the run's
\* MaxRows as those of the writer's own callers do
update_tickers(tickers, all_prices, list, new, failed) ==
    LET appended == {t \in {list[i] : i \in DOMAIN list} : new[t] # <<>>}
        full == [t \in Tickers |-> with_columns(new[t], t)]
        written == {p \in Tickers \X Years : p[1] \in appended /\ p[2] \in years_of(full[p[1]])}
        merged == [p \in written |-> merge(prices[p], filter_year(full[p[1]], p[2]))]
        handed == new_records(new, appended)
    IN  /\ used + (IF handed = 0 THEN 1 ELSE handed) <= MaxRows
        /\ used' = used + (IF handed = 0 THEN 1 ELSE handed)
        /\ \E m \in [written -> UNION {merged[p] : p \in written}] :
              /\ \A p \in written : m[p] \in merged[p]
              /\ prices' = [p \in Tickers \X Years |->
                              IF p \in written THEN write_parquet(prices[p], m[p])
                              ELSE prices[p]]
        /\ tdirs' = tdirs \cup {<<"prices", t>> : t \in appended}
        /\ last' = Update(tickers, all_prices,
                          [tickers_updated |-> Cardinality(appended),
                           new_records |-> handed,
                           errors |-> Pick(list, failed, 1)])

\* DataIngestion.update_prices_incremental(tickers), all_prices being what
\* self.client.get_prices(refresh=True) returns; tickers is {} for None.  The
\* loop is taken ticker by ticker of the list: get_date_range raises for each
\* of them or for none (it raises when the store holds no price file at all,
\* and then nothing is appended), and after a ticker's append its max_date is
\* the greatest downloaded date, so a second occurrence of the ticker in the
\* list finds no new row
update_prices_incremental(tickers, all_prices) ==
    LET list == IF tickers = {} THEN list_tickers("prices") ELSE Some(tickers)
        range == [t \in Tickers |-> get_date_range(t)]
    IN  /\ UNCHANGED <<quarterly, annual>>
        /\ IF list = <<>> \/ is_empty(all_prices)
           THEN /\ used < MaxRows
                /\ used' = used + 1
                /\ last' = Update(tickers, all_prices,
                                  [tickers_updated |-> 0, new_records |-> 0, errors |-> <<>>])
                /\ UNCHANGED <<prices, tdirs>>
           ELSE update_tickers(tickers, all_prices, list,
                               [t \in Tickers |->
                                  IF range[t].max_date = {} THEN <<>>
                                  ELSE filter_new(all_prices, t, Some(range[t].max_date))],
                               {i \in DOMAIN list : range[list[i]].raised})

\* the frames written are those of the store's runs; the update is called for
\* None, one ticker, both tickers, one ticker twice
NextIngest ==
    \/ \E df \in SeqsUpTo(PriceRows, 1) \cup {<<[date |-> 101, close |-> 1], [date |-> 101, close |-> 2]>>},
          t \in Tickers : write_prices(df, t)
    \/ \E l \in {{}, {<<1>>}, {<<2, 1>>}, {<<1, 1>>}}, a \in Downloads :
          update_prices_incremental(l, a)

SpecIngest == Init /\ [][NextIngest]_vars

\* ---------------------------------------------------------------- claims
\* the input frame of the last call as the writer stores it, and its part in year y
LastFull == with_columns(last.df, last.ticker)
LastNew(y) == SelectSeq(LastFull, LAMBDA r : YearOf(r.date) = y)
\* the partition of the last call's ticker for year y, now
Now(y) == prices[<<last.ticker, y>>]

OneRowPerDate(rows) == \A i, j \in DOMAIN rows : rows[i].date = rows[j].date => i = j
Ascending(rows) == \A i, j \in DOMAIN rows : i < j => rows[i].date <= rows[j].date

\* C1: append_prices(B, ticker) followed by a second append_prices(B, ticker)
\* leaves every affected (ticker, year) partition with the row set the first
\* append left.
C1_AppendTwiceSameRowSet ==
    [][(/\ last.op = "append_prices"
        /\ last'.op = "append_prices"
        /\ last'.df = last.df
        /\ last'.ticker = last.ticker)
       => \A y \in last'.ret :
             RowSet(prices'[<<last'.ticker, y>>].rows) = RowSet(prices[<<last.ticker, y>>].rows)]_vars

\* C2: after any append_prices call every partition file it wrote holds at most
\* one row per date, whether the file existed before or not and whatever the
\* batch holds.
C2_AppendOneRowPerDate ==
    last.op = "append_prices" => \A y \in last.ret : OneRowPerDate(Now(y).rows)

\* C4: after any append_prices call the rows of every partition file it wrote
\* are in ascending order of date, whether the partition existed or was created.
C4_AppendAscending ==
    last.op = "append_prices" => \A y \in last.ret : Ascending(Now(y).rows)

\* an append that had to reorder an existing partition and created another one
C4_Witness ==
    /\ last.op = "append_prices"
    /\ \E y \in last.ret :
          /\ last.before[y].exists
          /\ ~Ascending(last.before[y].rows \o LastNew(y))
          /\ Len(Now(y).rows) >= 2
    /\ \E y \in last.ret : ~last.before[y].exists

\* the input row (date, close) a stored row was written from
Input(r) == [date |-> r.date, close |-> r.close]
\* how many rows of a frame satisfy P
Count(rows, P(_)) == Cardinality({i \in DOMAIN rows : P(rows[i])})

\* C5: write_prices on a non-empty input whose dates span K distinct years
\* returns K paths, one per (ticker, year), and each file holds exactly the input
\* rows whose date falls in that year, each as often as the input has it.
C5_WriteSplitsByYear ==
    (last.op = "write_prices" /\ last.df # <<>>) =>
        LET spanned == {y \in Years : \E i \in DOMAIN last.df :
                            100 * y <= last.df[i].date /\ last.df[i].date < 100 * (y + 1)}
        IN  /\ last.ret = spanned
            /\ Cardinality(last.ret) = Cardinality(spanned)
            /\ \A y \in spanned :
                  /\ Now(y).exists
                  /\ \A i \in DOMAIN Now(y).rows :
                        /\ Now(y).rows[i].ticker = last.ticker
                        /\ 100 * y <= Now(y).rows[i].date
                        /\ Now(y).rows[i].date < 100 * (y + 1)
                  /\ \A r \in PriceRows :
                        Count(Now(y).rows, LAMBDA s : Input(s) = r)
                          = IF 100 * y <= r.date /\ r.date < 100 * (y + 1)
                            THEN Count(last.df, LAMBDA s : s = r) ELSE 0

\* a write of three rows over two years
C5_Witness ==
    /\ last.op = "write_prices"
    /\ Cardinality(last.ret) = 2
    /\ \E y \in last.ret : Len(Now(y).rows) = 2
    /\ Len(last.df) = 3

\* the last row of a frame that has date d
LastOf(rows, d) ==
    rows[CHOOSE i \in DOMAIN rows :
            /\ rows[i].date = d
            /\ \A j \in DOMAIN rows : rows[j].date = d => j <= i]
\* the rows of a frame that have date d
RowsOf(rows, d) == SelectSeq(rows, LAMBDA r : r.date = d)

\* C3 as stated: when append_prices merges a batch into an existing partition,
\* each date in both carries the batch's last values, every stored row whose date
\* is not in the batch is kept unchanged, and there are as many rows as distinct
\* dates in the union.
C3_MergeKeepsEveryStoredRow ==
    last.op = "append_prices" =>
        \A y \in last.ret : last.before[y].exists =>
            LET old == last.before[y].rows
                new == LastNew(y)
                res == Now(y).rows
            IN  /\ \A d \in DateSet(old) \cap DateSet(new) :
                      RowsOf(res, d) = <<LastOf(new, d)>>
                /\ \A i \in DOMAIN old :
                      old[i].date \notin DateSet(new) =>
                          \E j \in DOMAIN res : res[j] = old[i]
                /\ Len(res) = Cardinality(DateSet(old) \cup DateSet(new))

\* C3 as amended: when append_prices merges a batch into an existing partition,
\* each date in both carries the batch's last values, each stored date that is
\* not in the batch keeps the last stored row of that date and no other, and
\* there are as many rows as distinct dates in the union.
C3_MergeKeepsLastStoredRow ==
    last.op = "append_prices" =>
        \A y \in last.ret : last.before[y].exists =>
            LET old == last.before[y].rows
                new == LastNew(y)
                res == Now(y).rows
            IN  /\ \A d \in DateSet(old) \cap DateSet(new) :
                      RowsOf(res, d) = <<LastOf(new, d)>>
                /\ \A d \in DateSet(old) \ DateSet(new) :
                      RowsOf(res, d) = <<LastOf(old, d)>>
                /\ Len(res) = Cardinality(DateSet(old) \cup DateSet(new))

\* a merge that replaces the stored row of one date by the batch's different row
\* and keeps the stored row of another date
C3_Witness ==
    /\ last.op = "append_prices"
    /\ \E y \in last.ret :
          /\ last.before[y].exists
          /\ \E d \in DateSet(last.before[y].rows) \cap DateSet(LastNew(y)) :
                LastOf(last.before[y].rows, d) # LastOf(LastNew(y), d)
          /\ DateSet(last.before[y].rows) \ DateSet(LastNew(y)) # {}

\* C6: write_prices(rows, ticker) replaces the whole content of each
\* (ticker, year) partition for a year present in rows, so that no earlier row
\* survives, and leaves unchanged the ticker's partitions of other years, every
\* partition of other tickers and all fundamentals partitions.
C6_WriteReplacesAndFrames ==
    [][(last'.op = "write_prices" /\ last'.df # <<>>) =>
        LET t == last'.ticker
            ys == {y \in Years : \E i \in DOMAIN last'.df :
                        100 * y <= last'.df[i].date /\ last'.df[i].date < 100 * (y + 1)}
        IN  /\ \A y \in ys :
                  /\ prices'[<<t, y>>].exists
                  /\ Len(prices'[<<t, y>>].rows)
                       = Count(last'.df, LAMBDA r : 100 * y <= r.date /\ r.date < 100 * (y + 1))
                  /\ \A i \in DOMAIN prices'[<<t, y>>].rows :
                        Input(prices'[<<t, y>>].rows[i]) \in RowSet(last'.df)
            /\ \A p \in Tickers \X Years : (p[1] # t \/ p[2] \notin ys) => prices'[p] = prices[p]
            /\ quarterly' = quarterly
            /\ annual' = annual]_vars

\* a write that replaced a partition holding a row the input does not have, while
\* the ticker had a partition of another year and another ticker had a partition
C6_Witness ==
    /\ last.op = "write_prices"
    /\ \E y \in last.ret :
          /\ last.before[y].exists
          /\ \E i \in DOMAIN last.before[y].rows :
                Input(last.before[y].rows[i]) \notin RowSet(last.df)
    /\ \E y \in Years \ last.ret : Now(y).exists
    /\ \E t \in Tickers \ {last.ticker} : \E y \in Years : prices[<<t, y>>].exists

\* C7: write_prices and append_prices with an empty input return an empty list
\* and leave the store unchanged; write_fundamentals_quarterly and
\* write_fundamentals_annual with an empty input return no path and leave the
\* store unchanged; none of them raises.
C7_EmptyInputNoOp ==
    [][(/\ last'.op \in {"write_prices", "append_prices",
                         "write_fundamentals_quarterly", "write_fundamentals_annual"}
        /\ last'.df = <<>>)
       => /\ last'.ret = {}
          /\ ~last'.path
          /\ ~last'.raised
          /\ UNCHANGED <<prices, quarterly, annual, tdirs>>]_vars

\* an empty append for a ticker that has a price partition while the other
\* ticker has none
C7_Witness ==
    /\ last.op = "append_prices"
    /\ last.df = <<>>
    /\ \E y \in Years : Now(y).exists
    /\ \E t \in Tickers : ~exists("prices", t)

\* ticker T has a partition file of the kind
HasFile(kind, t) ==
    IF kind = "prices" THEN \E y \in Years : prices[<<t, y>>].exists
    ELSE IF kind = "quarterly" THEN quarterly[t].exists
    ELSE annual[t].exists

C9_ListTickersIsHasData ==
    \A k \in Kinds :
        LET l == list_tickers(k)
        IN  /\ \A i, j \in DOMAIN l : i < j => l[i] < l[j]
            /\ {l[i] : i \in DOMAIN l} = {t \in Tickers : has_data(t, k)}
            /\ {t \in Tickers : has_data(t, k)} = {t \in Tickers : HasFile(k, t)}

\* after a delete that removed something, one ticker is listed for prices, the
\* deleted one is not, and it is listed for another kind
C9_Witness ==
    /\ last.op = "delete_ticker"
    /\ last.deleted >= 1
    /\ Len(list_tickers("prices")) = 1
    /\ \A i \in DOMAIN list_tickers("prices") : list_tickers("prices")[i] # last.ticker
    /\ \E k \in Kinds \ {"prices"} : list_tickers(k) # <<>>

\* C10: get_prices, get_fundamentals_quarterly and get_fundamentals_annual,
\* called with any ticker, date and column arguments while no partition file of
\* the requested kind exists, yield an empty result and do not raise.
C10_NoFilesEmptyResult ==
    /\ (\A t \in Tickers : ~HasFile("prices", t)) =>
          \A t \in TickerArgs, s \in DateArgs, e \in DateArgs, c \in ColumnArgs :
              LET df == get_prices(t, s, e, c) IN ~df.raised /\ df.rows = <<>>
    /\ (\A t \in Tickers : ~HasFile("quarterly", t)) =>
          \A t \in TickerArgs, c \in ColumnArgs :
              LET df == get_fundamentals_quarterly(t, c) IN ~df.raised /\ df.rows = <<>>
    /\ (\A t \in Tickers : ~HasFile("annual", t)) =>
          \A t \in TickerArgs, c \in ColumnArgs :
              LET df == get_fundamentals_annual(t, c) IN ~df.raised /\ df.rows = <<>>

\* the price files are gone after a delete, quarterly files of the other ticker
\* remain: get_prices is empty and get_fundamentals_quarterly is not
C10_Witness ==
    /\ last.op = "delete_ticker"
    /\ last.deleted >= 1
    /\ \A t \in Tickers : ~HasFile("prices", t)
    /\ \E y \in Years : last.before[y].exists
    /\ get_prices({last.ticker}, {}, {}, {}) = EmptyFrame
    /\ get_fundamentals_quarterly({}, {}).rows # <<>>

\* C11: for a ticker with no stored rows, whether the store holds no partition
\* file at all or files of other tickers only, get_latest_price returns an empty
\* result, get_date_range returns (null, null) and get_ttm_fundamentals returns
\* an empty snapshot, and none of the three raises.
C11_NoRowsEmptyResults ==
    \A t \in Tickers :
        /\ ~HasFile("prices", t) =>
              /\ \A df \in get_latest_price(t) : ~df.raised /\ df.rows = <<>>
              /\ get_date_range(t) = [raised |-> FALSE, min_date |-> {}, max_date |-> {}]
        /\ ~HasFile("quarterly", t) =>
              \A a \in DateArgs :
                  \A df \in get_ttm_fundamentals(t, a) : ~df.raised /\ df.rows = <<>>

\* how often the price partitions hold the row r, over all of them
Stored(r) ==
    Cardinality(UNION {{<<p, i>> : i \in {j \in DOMAIN prices[p].rows : prices[p].rows[j] = r}} :
                          p \in Tickers \X Years})
\* the rows some price partition holds
StoredPriceRows == UNION {RowSet(prices[p].rows) : p \in Tickers \X Years}

\* C12: get_prices(ticker, start_date, end_date) returns exactly the stored rows
\* of that ticker, over all of its year partitions, whose date d satisfies
\* start_date <= d <= end_date (an omitted bound being unbounded), each as often
\* as it is stored, and no row of another ticker.
C12_GetPricesExactRows ==
    (last.op = "get_prices" /\ last.ticker # {} /\ last.columns = {}) =>
        LET InRange(r) ==
                /\ r.ticker = Some(last.ticker)
                /\ (last.start_date # {} => Some(last.start_date) <= r.date)
                /\ (last.end_date # {} => r.date <= Some(last.end_date))
        IN  /\ ~last.ret.raised
            /\ \A r \in StoredPriceRows :
                  Count(last.ret.rows, LAMBDA x : x = r) = IF InRange(r) THEN Stored(r) ELSE 0
            /\ \A i \in DOMAIN last.ret.rows : last.ret.rows[i] \in StoredPriceRows

\* a range whose two bounds are dates of stored rows of the ticker, in two year
\* partitions, that leaves out a stored row of the ticker, while the other
\* ticker has a row in the range
C12_Witness ==
    /\ last.op = "get_prices"
    /\ last.ticker # {} /\ last.columns = {} /\ last.start_date # {} /\ last.end_date # {}
    /\ Some(last.start_date) \in DateSet(last.ret.rows)
    /\ Some(last.end_date) \in DateSet(last.ret.rows)
    /\ YearOf(Some(last.start_date)) # YearOf(Some(last.end_date))
    /\ \E r \in StoredPriceRows :
          r.ticker = Some(last.ticker) /\ r.date < Some(last.start_date)
    /\ \E r \in StoredPriceRows :
          /\ r.ticker # Some(last.ticker)
          /\ Some(last.start_date) <= r.date
          /\ r.date <= Some(last.end_date)

\* C13: for every requested column list, the result of get_prices over stored
\* data has the columns ticker and date and the requested columns that the
\* schema has, and no other column; the results of get_fundamentals_quarterly
\* and get_fundamentals_annual always have the column ticker.
C13_ProjectionKeepsKeys ==
    /\ (last.op = "get_prices" /\ has_parquet_files("prices") /\ last.columns # {}) =>
          /\ ~last.ret.raised
          /\ last.ret.columns = {"ticker", "date"} \cup (Some(last.columns) \cap PriceColumns)
          /\ \A i \in DOMAIN last.ret.rows : DOMAIN last.ret.rows[i] = last.ret.columns
    /\ \A k \in {"quarterly", "annual"} :
          (last.op = "get_fundamentals_" \o k /\ has_parquet_files(k)) =>
              /\ ~last.ret.raised
              /\ "ticker" \in last.ret.columns
              /\ last.columns # {} =>
                    last.ret.columns = {"ticker"} \cup (Some(last.columns) \cap StatementColumns)
              /\ \A i \in DOMAIN last.ret.rows : DOMAIN last.ret.rows[i] = last.ret.columns

\* statements asked for revenue and a column that does not exist come with
\* ticker and revenue, in a store whose prices asked for close only come with
\* ticker, date and close
C13_Witness ==
    /\ last.op = "get_fundamentals_quarterly"
    /\ last.columns = {{"revenue", "volume"}}
    /\ last.ret.rows # <<>>
    /\ DOMAIN last.ret.rows[1] = {"ticker", "revenue"}
    /\ LET df == get_prices({}, {}, {}, {{"close"}})
       IN  /\ df.rows # <<>>
           /\ DOMAIN df.rows[1] = {"ticker", "date", "close"}

\* the dates of the stored price rows of ticker t, over all of its partitions
StoredDates(t) == UNION {DateSet(prices[<<t, y>>].rows) : y \in Years}

\* C14: for a ticker with at least one stored price row, after any sequence of
\* writes and appends, get_latest_price returns exactly one row, a stored row of
\* the ticker whose date is the maximum date over all of the ticker's year
\* partitions, and get_date_range returns (minimum date, maximum date) over the
\* same rows.
C14_LatestAndRange ==
    \A t \in Tickers : StoredDates(t) # {} =>
        /\ \A df \in get_latest_price(t) :
              /\ ~df.raised
              /\ Len(df.rows) = 1
              /\ Stored(df.rows[1]) >= 1
              /\ df.rows[1].ticker = t
              /\ \A d \in StoredDates(t) : d <= df.rows[1].date
        /\ LET range == get_date_range(t)
           IN  /\ ~range.raised
               /\ \E lo, hi \in StoredDates(t) :
                     /\ range.min_date = {lo}
                     /\ range.max_date = {hi}
                     /\ \A d \in StoredDates(t) : lo <= d /\ d <= hi

\* after an append, a ticker with rows in both years, while the other ticker
\* has rows too, all of them older than the ticker's latest row
C14_Witness ==
    /\ last.op = "append_prices"
    /\ \E t \in Tickers :
          /\ \A y \in Years : prices[<<t, y>>].rows # <<>>
          /\ Cardinality(get_latest_price(t)) = 1
          /\ \E u \in Tickers \ {t} :
                /\ StoredDates(u) # {}
                /\ \A d \in StoredDates(u) : \E d2 \in StoredDates(t) : d < d2

\* the stored quarterly rows of the last call's ticker, and the indices of those
\* the call's as-of date admits
Filed == quarterly[last.ticker].rows
Eligible ==
    {i \in DOMAIN Filed :
        last.as_of_date # {} => Filed[i].fiscal_period <= Some(last.as_of_date)}
FewerOf(a, b) == IF a < b THEN a ELSE b
\* the choices of min(4, n) eligible rows of greatest fiscal_period
Selections ==
    {S \in SUBSET Eligible :
        /\ Cardinality(S) = FewerOf(4, Cardinality(Eligible))
        /\ \A i \in S, j \in Eligible \ S :
              Filed[i].fiscal_period >= Filed[j].fiscal_period}
\* the sum of column c over the rows of index in S that have a value in it
RECURSIVE SumOver(_, _)
SumOver(S, c) ==
    IF S = {} THEN 0
    ELSE LET i == CHOOSE x \in S : TRUE
         IN  (IF Filed[i][c] = {} THEN 0 ELSE Some(Filed[i][c])) + SumOver(S \ {i}, c)
\* the numeric statement columns
ValueColumns == StatementColumns \ {"ticker", "fiscal_period"}

C16_TtmSumSkipsNulls ==
    (last.op = "get_ttm_fundamentals" /\ ~last.ret.raised /\ last.ret.rows # <<>>) =>
        \E S \in Selections :
            /\ last.ret.rows[1].quarters_included = Cardinality(S)
            /\ \A c \in ValueColumns :
                  LET valued == {i \in S : Filed[i][c] # {}}
                  IN  /\ last.ret.rows[1][c] # {}
                      /\ last.ret.rows[1][c] = {SumOver(valued, c)}

\* four selected quarters, one without revenue and three with: the revenue is
\* the sum of the three and quarters_included is 4
C16_Witness ==
    /\ last.op = "get_ttm_fundamentals"
    /\ Cardinality(Eligible) = 4
    /\ Cardinality({i \in Eligible : Filed[i].revenue = {}}) = 1
    /\ last.ret.rows[1].revenue = {8}
    /\ last.ret.rows[1].quarters_included = 4

\* the stored price rows of the last call's ticker on or before its as-of date,
\* over all year partitions, and the latest of them
Quoted ==
    UNION {{r \in RowSet(prices[<<last.ticker, y>>].rows) :
              last.as_of_date # {} => r.date <= Some(last.as_of_date)} : y \in Years}
Latest == {r \in Quoted : \A q \in Quoted : q.date <= r.date}
\* the snapshot of the quarters of index in S
SnapshotOf(S) ==
    [raised |-> FALSE, columns |-> ValueColumns,
     rows |-> <<[c \in ValueColumns |-> {SumOver(S, c)}]>>]

\* C17: get_pe_ratio returns null, and neither raises nor returns an infinite
\* value, whenever the ticker has no price row (on or before the as-of date),
\* has no TTM data, or its TTM EPS is null or zero; in every other case it
\* returns the close of the latest price row (on or before the as-of date)
\* divided by TTM EPS (to the 2 decimals it rounds to).
C17_PeNullOrQuotient ==
    last.op = "get_pe_ratio" =>
        /\ ~last.ret.raised
        /\ IF Latest = {} \/ Eligible = {} THEN last.ret.value = {}
           ELSE \E r \in Latest, S \in Selections :
                   LET eps == get_ttm_eps(SnapshotOf(S))
                   IN  IF eps = {} \/ Some(eps).num = 0 THEN last.ret.value = {}
                       ELSE last.ret.value = {round(r.close * Some(eps).den, Some(eps).num, 2)}

\* some quarter of index in S has a value in column c
Valued(S, c) == \E i \in S : Filed[i][c] # {}

\* C18: TTM EPS is the snapshot's eps when the eps field is present and not null
\* in the quarterly data; otherwise it is TTM net_income divided by TTM
\* shares_outstanding; it is null when neither source is available or when
\* shares_outstanding <= 0.  In particular, when eps is null in every selected
\* quarter the net_income / shares_outstanding fallback is used.
C18_TtmEpsFallback ==
    (last.op = "get_ttm_eps" /\ Eligible # {}) =>
        /\ ~last.ret.raised
        /\ \E S \in Selections :
              IF Valued(S, "eps")
              THEN last.ret.value = {[num |-> SumOver(S, "eps"), den |-> 1]}
              ELSE IF /\ Valued(S, "net_income")
                      /\ Valued(S, "shares_outstanding")
                      /\ SumOver(S, "shares_outstanding") > 0
              THEN last.ret.value = {[num |-> SumOver(S, "net_income"),
                                      den |-> SumOver(S, "shares_outstanding")]}
              ELSE last.ret.value = {}

Margins ==
    [get_operating_margin |-> "operating_income",
     get_net_profit_margin |-> "net_income",
     get_gross_margin |-> "gross_profit"]

\* C19: get_operating_margin, get_net_profit_margin and get_gross_margin each
\* return null without raising whenever TTM revenue is missing or zero or the
\* numerator field (operating_income, net_income, gross_profit) is missing or
\* null; otherwise each returns TTM numerator divided by TTM revenue (to the 4
\* decimals it rounds to).
C19_MarginNullOrQuotient ==
    last.op \in DOMAIN Margins =>
        /\ ~last.ret.raised
        /\ IF Eligible = {} THEN last.ret.value = {}
           ELSE \E S \in Selections :
                   IF \/ ~Valued(S, "revenue")
                      \/ SumOver(S, "revenue") = 0
                      \/ ~Valued(S, Margins[last.op])
                   THEN last.ret.value = {}
                   ELSE last.ret.value
                          = {round(SumOver(S, Margins[last.op]), SumOver(S, "revenue"), 4)}

Intensities == [get_rd_intensity |-> "rd_expense", get_capex_ratio |-> "capex"]

\* C20: get_rd_intensity (resp. get_capex_ratio) returns null, not 0, when
\* rd_expense (resp. capex) is missing for the ticker, including when the field
\* is null in every quarter selected for the TTM window while revenue is not
\* zero: the TTM aggregation never turns a value that is absent in all quarters
\* into a numeric 0.
C20_IntensityNullWhenAbsent ==
    (last.op \in DOMAIN Intensities /\ Eligible # {}) =>
        ((\A S \in Selections : ~Valued(S, Intensities[last.op]))
            => last.ret = None)

\* the pairs of eligible rows that the descending order of fiscal_period can
\* put at positions 0 and 4
Positions ==
    {p \in Eligible \X Eligible :
        /\ p[1] # p[2]
        /\ \A j \in Eligible : Filed[p[1]].fiscal_period >= Filed[j].fiscal_period
        /\ Cardinality({j \in Eligible :
                          Filed[j].fiscal_period > Filed[p[2]].fiscal_period}) <= 4
        /\ Cardinality({j \in Eligible :
                          Filed[j].fiscal_period >= Filed[p[2]].fiscal_period}) >= 5}
\* (v0 - v4) / |v4| to 4 decimals, or null
YearOverYear(v0, v4) ==
    IF v4 = {} \/ Some(v4) = 0 \/ v0 = {} THEN None
    ELSE Returned(round(Some(v0) - Some(v4), abs(Some(v4)), 4))

\* C21: get_revenue_growth and get_eps_growth return (v0 - v4) / |v4| for the
\* values at positions 0 and 4 of the eligible quarterly rows (fiscal_period <=
\* as-of) in descending order of fiscal_period; they return null, and do not
\* raise, when fewer than 5 quarters are eligible, when v4 is null or zero, or
\* when v0 is null.
C21_YoYGrowth ==
    last.op \in {"get_revenue_growth", "get_eps_growth"} =>
        LET c == IF last.op = "get_revenue_growth" THEN "revenue" ELSE "eps"
        IN  IF Cardinality(Eligible) < 5 THEN last.ret = None
            ELSE \E p \in Positions :
                    last.ret = YearOverYear(Filed[p[1]][c], Filed[p[2]][c])

\* the eligible rows in the orders that descending fiscal_period allows
Orders == sort_rows_descending(Pick(Filed, Eligible, 1), "fiscal_period")

\* C22: the n-year EPS CAGR is (current TTM EPS / TTM EPS of n years ago)^(1/n)
\* - 1, the current TTM being the sum over the 4 most recent eligible quarters
\* and the earlier one the sum over the 4 quarters 4n quarters before them
\* (positions 4n .. 4n + 3 of the descending order, disjoint from the first
\* four); it is null when fewer than 4n + 4 quarters are eligible or either sum
\* is <= 0.  Stated for a ticker with an eligible quarter, where no reader
\* raises.
C22_EpsCagrWindows ==
    (last.op = "_calculate_eps_cagr" /\ Eligible # {}) =>
        LET n == Some(last.years)
        IN  IF Cardinality(Eligible) < 4 * n + 4 THEN last.ret = None
            ELSE \E rows \in Orders :
                    LET current == total(SubSeq(rows, 1, 4), "eps")
                        past == total(SubSeq(rows, 4 * n + 1, 4 * n + 4), "eps")
                    IN  last.ret = IF current <= 0 \/ past <= 0 THEN None
                                   ELSE Returned(cagr(current, past, n))

\* what the getter of a metric can return for the last call's arguments
Getter(m) ==
    CASE m = "pe_ratio" -> get_pe_ratio(last.ticker, last.as_of_date)
      [] m = "peg_ratio" -> get_peg_ratio(last.ticker, 5, last.as_of_date)
      [] m = "operating_margin" -> get_operating_margin(last.ticker, last.as_of_date)
      [] m = "net_profit_margin" -> get_net_profit_margin(last.ticker, last.as_of_date)
      [] m = "gross_margin" -> get_gross_margin(last.ticker, last.as_of_date)
      [] m = "revenue_growth" -> get_revenue_growth(last.ticker, last.as_of_date)
      [] m = "eps_growth" -> get_eps_growth(last.ticker, last.as_of_date)
      [] m = "rd_intensity" -> get_rd_intensity(last.ticker, last.as_of_date)
      [] m = "capex_ratio" -> get_capex_ratio(last.ticker, last.as_of_date)

\* C23: get_all_ratios(ticker, as_of_date) returns an entry with the keys
\* ticker, as_of_date ("latest" when no date is given) and the nine metric
\* names, and a metric whose getter fails does not keep the others from being
\* computed and returned: the call does not raise, and each key holds a value
\* its getter returns (null for a getter that fails).  Stated for a ticker with
\* an eligible quarter, whose margins can be computed.
C23_AllRatiosIndependent ==
    (last.op = "get_all_ratios" /\ Eligible # {}) =>
        /\ ~last.ret.raised
        /\ LET entry == Some(last.ret.value)
           IN  /\ DOMAIN entry = MetricNames \cup {"ticker", "as_of_date"}
               /\ entry.ticker = last.ticker
               /\ entry.as_of_date = IF last.as_of_date = {} THEN "latest"
                                     ELSE str(Some(last.as_of_date))
               /\ \A m \in MetricNames : entry[m] \in {r.value : r \in Getter(m)}

\* the tickers the last call of the engine works on: those requested, or those
\* with a price directory
Requested ==
    IF last.op \in {"get_sector_averages", "compare_tickers"} THEN last.args.tickers
    ELSE IF last.args.tickers = {} THEN list_tickers("prices")
    ELSE Some(last.args.tickers)

Batches == calculate_all_ratios({Requested}, {})

\* the rows of df that have a value within the bounds in every filtered column
Passing(df, filters) ==
    SelectSeq(df.rows,
              LAMBDA r : \A i \in DOMAIN filters :
                  LET f == filters[i]
                  IN  /\ f.column \in df.columns
                      /\ r[f.column] # {}
                      /\ f.min_val # {} => Some(r[f.column]) >= Some(f.min_val)
                      /\ f.max_val # {} => Some(r[f.column]) <= Some(f.max_val))

\* C25: screen_stocks(filters) returns exactly the batch rows that have, in
\* every filtered ratio metric, a value v that is not null with min <= v <= max
\* (each bound inclusive, an omitted bound unbounded), whatever the outcome of
\* the per-ticker computations.  Stated for filters that give a bound for each
\* metric they name.
C25_ScreenWithinBounds ==
    (/\ last.op = "screen_stocks"
     /\ last.args.filters # {}
     /\ \A i \in DOMAIN Some(last.args.filters) :
           LET f == Some(last.args.filters)[i]
           IN  f.column \in MetricNames /\ (f.min_val # {} \/ f.max_val # {})) =>
        \E df \in Batches : last.ret.rows = Passing(df, Some(last.args.filters))

\* the rows of a batch frame that have a value for the metric
Rankable(df, metric) ==
    IF metric \in df.columns THEN filter_is_not_null(df, metric).rows ELSE <<>>

\* C26: rank_by_metric(metric, ascending, top_n) returns only tickers whose
\* metric is not null, ordered by the metric in the requested direction, with
\* the ranks 1, 2, ..., k in that order, k = min(top_n, number of tickers with
\* a value), and they are the first k rows of the sorted order: no row left out
\* comes before a row returned.
C26_RankFirstK ==
    last.op = "rank_by_metric" =>
        \E df \in Batches :
            LET metric == last.args.metric
                rows == Rankable(df, metric)
                k == IF last.args.top_n = {} THEN Len(rows)
                     ELSE FewerOf(Some(last.args.top_n), Len(rows))
                ret == last.ret.rows
                Before(x, y) == IF last.args.ascending THEN x <= y ELSE x >= y
            IN  /\ ~last.ret.raised
                /\ Len(ret) = k
                /\ \A i \in 1..k : ret[i].rank = i /\ ret[i][metric] # {}
                /\ \A i \in 1..k, j \in 1..k :
                      i < j => Before(Some(ret[i][metric]), Some(ret[j][metric]))
                /\ \E f \in [1..k -> DOMAIN rows] :
                      /\ \A i \in 1..k, j \in 1..k : i # j => f[i] # f[j]
                      /\ \A i \in 1..k : /\ ret[i].ticker = rows[f[i]].ticker
                                         /\ ret[i][metric] = rows[f[i]][metric]
                      /\ \A i \in 1..k, j \in DOMAIN rows \ {f[x] : x \in 1..k} :
                            Before(Some(ret[i][metric]), Some(rows[j][metric]))

\* two tickers with different values, ranked in descending order and cut to the
\* first: the one of the greater value is returned with rank 1
C26_Witness ==
    /\ last.op = "rank_by_metric"
    /\ ~last.args.ascending
    /\ last.args.top_n = {1}
    /\ Len(last.ret.rows) = 1
    /\ last.ret.rows[1].rank = 1
    /\ \E df \in Batches :
          /\ Len(Rankable(df, last.args.metric)) = 2
          /\ \E i \in 1..2 :
                Some(Rankable(df, last.args.metric)[i][last.args.metric])
                    < Some(last.ret.rows[1][last.args.metric])

\* the mean of the values of column c in the rows of df that have one, to 4
\* decimals
MeanOfValued(df, c) ==
    LET valued == SelectSeq(df.rows, LAMBDA r : r[c] # {})
    IN  round(total(valued, c), Len(valued) * 10 ^ Decimals(c), 4)

\* for a batch frame: ticker_count is the number of tickers requested, and the
\* metrics reported are those with a value for some ticker, each with the mean
\* over the tickers that have a value
AveragesOf(df) ==
    /\ "ticker_count" \in DOMAIN last.ret
    /\ last.ret.ticker_count = Len(last.args.tickers)
    /\ DOMAIN last.ret \ {"ticker_count"} =
          {m \in MetricNames \cap df.columns : \E i \in DOMAIN df.rows : df.rows[i][m] # {}}
    /\ \A m \in DOMAIN last.ret \ {"ticker_count"} : last.ret[m] = MeanOfValued(df, m)

\* C27 as stated: for every list of requested tickers, get_sector_averages
\* returns a result with ticker_count equal to the number of tickers requested,
\* and each reported average is the mean over the tickers whose value for the
\* metric is not null.
C27_SectorAveragesEveryList ==
    last.op = "get_sector_averages" => \E df \in Batches : AveragesOf(df)

\* C27, amended: so it is for every list that is not empty; for the empty list
\* the result is the empty dict, without ticker_count.
C27_SectorAverages ==
    last.op = "get_sector_averages" =>
        IF last.args.tickers = <<>> THEN DOMAIN last.ret = {}
        ELSE \E df \in Batches : AveragesOf(df)

\* two tickers requested, one with a PE and one without: the average is the PE
\* of the one, and ticker_count is 2
C27_Witness ==
    /\ last.op = "get_sector_averages"
    /\ Len(last.args.tickers) = 2
    /\ "pe_ratio" \in DOMAIN last.ret
    /\ last.ret.ticker_count = 2
    /\ \E df \in Batches :
          /\ "error" \notin df.columns
          /\ \E i \in 1..2 : df.rows[i].pe_ratio = {}
          /\ \E i \in 1..2 : df.rows[i].pe_ratio = {last.ret.pe_ratio \div 100}

\* the partition files and ticker directories of the store
Store == <<prices, quarterly, annual, tdirs>>
\* the reading methods called in the runs, and the writer's methods
ReadOps ==
    {"list_tickers", "has_data", "get_date_range", "get_latest_price", "get_prices",
     "get_ttm_fundamentals", "get_all_ratios", "screen_stocks"}
WriteOps ==
    {"write_prices", "append_prices", "write_fundamentals_quarterly",
     "write_fundamentals_annual", "delete_ticker"}

PricesUpTo(t, D) ==
    SelectSeq(ConcatAll([i \in DOMAIN YearOrder |-> prices[<<t, YearOrder[i]>>].rows]),
              LAMBDA r : r.date <= D)
QuartersUpTo(t, D) == SelectSeq(quarterly[t].rows, LAMBDA r : r.fiscal_period <= D)
\* the same rows, each as many times, in whatever order
SameRows(a, b) ==
    /\ Len(a) = Len(b)
    /\ \A r \in RowSet(a) :
          Len(SelectSeq(a, LAMBDA x : x = r)) = Len(SelectSeq(b, LAMBDA x : x = r))

\* C29: ratios as of a date D use no later data: a step that changes the store
\* but leaves every ticker's price rows dated D or before and quarterly rows of
\* a fiscal_period of D or before as they were (it adds or removes later rows
\* only) leaves what get_all_ratios(ticker, D) returns unchanged
C29_AsOfUsesNoLaterData ==
    [][\A D \in Dates :
          (/\ Store' # Store
           /\ \A t \in Tickers : /\ SameRows(PricesUpTo(t, D), PricesUpTo(t, D)')
                                 /\ SameRows(QuartersUpTo(t, D), QuartersUpTo(t, D)'))
          => \A t \in Tickers : get_all_ratios(t, {D})' = get_all_ratios(t, {D})]_vars

\* the price rows of ticker t in the partitions pr, and the greatest of their dates
RowsIn(pr, t) == UNION {RowSet(pr[<<t, y>>].rows) : y \in Years}
MaxDateIn(pr, t) == Greatest({r.date : r \in RowsIn(pr, t)})
\* the downloaded rows of ticker t, as the writer stores them
Downloaded(t) ==
    {[ticker |-> t, date |-> r.date, close |-> r.close, year |-> YearOf(r.date)] :
        r \in {x \in RowSet(last.all_prices) : x.ticker = t}}
\* the tickers of a list
Listed(tickers) == {tickers[i] : i \in DOMAIN tickers}
\* the tickers the last update went through, in its order
Updated ==
    IF last.tickers = {} THEN sorted({t \in Tickers : <<"prices", t>> \in last.dirs})
    ELSE Some(last.tickers)
\* the update reached its loop: there are tickers and the download is not empty
Looped == Updated # <<>> /\ last.all_prices # <<>>
\* the store held no price file at all, where get_date_range raises
NoPriceFile == \A p \in Tickers \X Years : ~last.before[p].exists
\* a row stored now that was not stored before is a downloaded row of the
\* ticker, dated after the ticker's greatest stored date
OnlyNewerRows(t) ==
    \A r \in RowsIn(prices, t) \ RowsIn(last.before, t) :
        /\ t \in Listed(Updated)
        /\ r \in Downloaded(t)
        /\ RowsIn(last.before, t) # {}
        /\ r.date > MaxDateIn(last.before, t)
\* every downloaded date after the greatest stored date of a listed ticker
\* with stored rows is stored now
EveryNewerDate(t) ==
    Looped /\ t \in Listed(Updated) /\ RowsIn(last.before, t) # {} =>
        \A r \in Downloaded(t) :
            r.date > MaxDateIn(last.before, t) => r.date \in DateSet(prices[<<t, r.year>>].rows)
\* a ticker without stored price rows gets no partition and no directory
NothingCreated(t) ==
    RowsIn(last.before, t) = {} =>
        /\ \A y \in Years : prices[<<t, y>>] = last.before[<<t, y>>]
        /\ <<"prices", t>> \in tdirs <=> <<"prices", t>> \in last.dirs
\* a failure is recorded for each ticker it happens to, the list being gone
\* through to its end
FailuresRecorded ==
    /\ last.summary.errors = IF Looped /\ NoPriceFile THEN Updated ELSE <<>>
    /\ last.summary.tickers_updated =
          Cardinality({t \in Tickers : RowsIn(prices, t) # RowsIn(last.before, t)})

\* C30 as stated: update_prices_incremental only adds rows: the rows it adds
\* for a ticker are downloaded rows dated after the ticker's greatest stored
\* date, every price row stored before the call is stored after it, a
\* ticker without stored price data gets no partition, and a failure on a
\* ticker is recorded in errors while the other tickers are still updated
C30_UpdateKeepsEveryRow ==
    last.op = "update_prices_incremental" =>
        /\ \A t \in Tickers : OnlyNewerRows(t) /\ EveryNewerDate(t) /\ NothingCreated(t)
        /\ \A p \in Tickers \X Years : RowSet(last.before[p].rows) \subseteq RowSet(prices[p].rows)
        /\ FailuresRecorded

\* C30, amended: as above, but of the stored rows of a date the partitions that
\* receive new rows keep the last one only; the others are as they were
C30_UpdateOnlyAddsNewer ==
    last.op = "update_prices_incremental" =>
        /\ \A t \in Tickers : OnlyNewerRows(t) /\ EveryNewerDate(t) /\ NothingCreated(t)
        /\ \A p \in Tickers \X Years :
              \/ prices[p] = last.before[p]
              \/ /\ \E r \in RowSet(prices[p].rows) : r \notin RowSet(last.before[p].rows)
                 /\ \A d \in DateSet(last.before[p].rows) :
                       RowsOf(prices[p].rows, d) = <<LastOf(last.before[p].rows, d)>>
        /\ FailuresRecorded
\* an update that added rows to a ticker's partition holding rows already,
\* while the other listed ticker had no stored prices
C30_Witness ==
    /\ last.op = "update_prices_incremental"
    /\ Len(Updated) = 2
    /\ last.summary.tickers_updated = 1
    /\ \E t \in Listed(Updated) : RowsIn(last.before, t) = {}
    /\ \E p \in Tickers \X Years :
          /\ last.before[p].rows # <<>>
          /\ Len(prices[p].rows) > Len(last.before[p].rows)

====
